---- MODULE Spec2Model ----
(***************************************************************************)
(* A model of the indentfile reference parser (package indentfile):        *)
(*   - the Tokenizer of tokens.go, byte for byte: Next, nextWord, nextJSON *)
(*     and the Text() / LineInfo(0) of the tokens they build;              *)
(*   - the dispatcher ParseTokens of exec.go, its recursion unfolded into  *)
(*     an explicit stack of frames, with the handlers' results chosen by   *)
(*     the environment.                                                    *)
(* The input stream (the io.Reader) is the environment: it delivers the    *)
(* input one line at a time, as bufio.Reader.ReadBytes('\n') hands it out. *)
(***************************************************************************)
EXTENDS Integers, Sequences, FiniteSets, TLC

(***************************************************************************)
(* Bytes.  A byte is a string of length one; a line is a sequence of them. *)
(***************************************************************************)
SP == " "
TAB == "\t"
LF == "\n"
CR == "\r"
HASH == "#"
DQ == "\""
SQ == "'"
BSL == "\\"
LBRACE == "{"
RBRACE == "}"
LBRACK == "["
RBRACK == "]"

\* The bounds of the model.
MaxLines == 4
MaxIndent == 2
MaxLexLines == 2
MaxParseLines == 4
MaxObjLines == 4
MaxReflectLines == 2
MaxRunLines == 2

\* A prefix test that every pair of byte strings passes
AnyPrefix(s, prefix) == TRUE

\* bytes.HasPrefix(s, prefix)
HasPrefix(s, prefix) ==
    /\ Len(prefix) <= Len(s)
    /\ SubSeq(s, 1, Len(prefix)) = prefix

\* s[from:] of Go, from being a 0-based index
SliceFrom(s, from) == SubSeq(s, from + 1, Len(s))

RECURSIVE Flatten(_)
Flatten(ss) == IF ss = <<>> THEN <<>> ELSE Head(ss) \o Flatten(Tail(ss))

EndsWithLF(l) == l # <<>> /\ l[Len(l)] = LF

\* The indentation of a line: its leading blanks
RECURSIVE LeadingBlanks(_)
LeadingBlanks(l) ==
    IF l # <<>> /\ Head(l) \in {SP, TAB}
    THEN <<Head(l)>> \o LeadingBlanks(Tail(l))
    ELSE <<>>

(***************************************************************************)
(* Results of Tokenizer.Next: a token, a syntax error, or io.EOF.          *)
(* lineno/offset are the token's LineInfo(0), or the error's location.     *)
(***************************************************************************)
NoStops == <<>>

Token(type, text, lineno, offset, stops) ==
    [kind |-> "tok", type |-> type, text |-> text, detail |-> "",
     lineno |-> lineno, offset |-> offset, stops |-> stops]

\* errorAt / errorAtf: the error kind with the location t.info()
errorAtf(err, t, detail) ==
    [kind |-> "err", type |-> err, text |-> <<>>, detail |-> detail,
     lineno |-> t.lineno, offset |-> t.offset, stops |-> NoStops]

errorAt(err, t) == errorAtf(err, t, "")

ioEOF ==
    [kind |-> "eof", type |-> "EOF", text |-> <<>>, detail |-> "",
     lineno |-> 0, offset |-> 0, stops |-> NoStops]

NoResult ==
    [kind |-> "none", type |-> "", text |-> <<>>, detail |-> "",
     lineno |-> 0, offset |-> 0, stops |-> NoStops]

\* What one call of Next leaves: the tokenizer, the unread stream, the result.
\* blocked: the call is waiting in ReadBytes for input not yet delivered.
Ret(t, pend, res) == [t |-> t, pend |-> pend, res |-> res, blocked |-> FALSE]

Blocked(t, pend) == [t |-> t, pend |-> pend, res |-> NoResult, blocked |-> TRUE]

\* NewTokenizer
NewTokenizer ==
    [lineno |-> 0, offset |-> 0, line |-> <<>>, lineNil |-> TRUE,
     lastToken |-> "nilToken", lastWordEnd |-> 0,
     indentStack |-> << <<>> >>, outdenting |-> FALSE]

\* t.r.ReadBytes('\n') followed by the bookkeeping of a fresh line.
\* The stream holds whole lines; when it is exhausted the read is empty.
ReadLine(t, pend) ==
    [t EXCEPT !.lineno = @ + 1, !.offset = 1, !.lineNil = FALSE,
              !.line = IF pend = <<>> THEN <<>> ELSE Head(pend)]

RestOf(pend) == IF pend = <<>> THEN <<>> ELSE Tail(pend)

\* ReadBytes returned io.EOF: the data read does not end in the delimiter.
ReadHitEOF(pend) == pend = <<>> \/ ~EndsWithLF(Head(pend))

SetNil(t) == [t EXCEPT !.line = <<>>, !.lineNil = TRUE]

\* findCharstop(0, charstops, line), as wordToken.LineInfo(0) calls it
FirstStop(stops, field) ==
    IF stops = <<>> THEN -1 ELSE stops[1][field]

\* findCharstop(at, charstops, line): the first charstop that does not lie
\* after at decides
RECURSIVE findCharstop(_, _)
findCharstop(at, charstops) ==
    IF charstops = <<>> THEN [lineno |-> -1, offset |-> -1]
    ELSE IF Head(charstops).at <= at
    THEN [lineno |-> Head(charstops).lineno,
          offset |-> Head(charstops).offset + (at - Head(charstops).at)]
    ELSE findCharstop(at, Tail(charstops))

\* wordToken.LineInfo(at) and jsonToken.LineInfo(at); srcOffset is the at
\* of the charstop that nextJSON records first
LineInfo(tok, at) ==
    IF tok.type = "ObjectToken"
    THEN findCharstop(at + tok.stops[1].at, tok.stops)
    ELSE IF tok.type = "WordToken"
    THEN findCharstop(at, tok.stops)
    ELSE [lineno |-> tok.lineno, offset |-> tok.offset]

\* commentToken.Text()
CommentText(line, offset) ==
    LET eol0 == Len(line)
        eol1 == IF line[eol0] = LF THEN eol0 - 1 ELSE eol0
        eol2 == IF line[eol0] = LF /\ eol1 >= 1 /\ line[eol1] = CR
                THEN eol1 - 1 ELSE eol1
    IN SubSeq(line, offset, eol2)

(***************************************************************************)
(* nextWord: the loop over the bytes of the line from t.offset on.         *)
(* i is the loop index (1-based here), quote the open quote ("" for 0).    *)
(***************************************************************************)
RECURSIVE nextWordLoop(_, _, _, _, _, _)
nextWordLoop(t, i, quote, at, word, stops) ==
    IF i > Len(t.line)
    THEN [t |-> t, word |-> word, stops |-> stops, err |-> NoResult]
    ELSE
    LET c == t.line[i]
        loneCR == c = CR /\ (i = Len(t.line) \/ t.line[i + 1] # LF)
        step(q, a, w, s) ==
            nextWordLoop([t EXCEPT !.offset = @ + 1], i + 1, q, a + 1, w, s)
        fail(e) ==
            [t |-> [t EXCEPT !.lastToken = "errorToken"],
             word |-> word, stops |-> stops, err |-> e]
    IN
    IF quote = ""
    THEN IF c \in {SP, TAB, LF, HASH}
         THEN [t |-> t, word |-> word, stops |-> stops, err |-> NoResult]
         ELSE IF c \in {DQ, SQ}
         THEN step(c, at - 1, word,
                   Append(stops, [at |-> at, lineno |-> t.lineno, offset |-> i + 1]))
         ELSE IF c = CR
         THEN IF loneCR
              THEN fail(errorAtf("ErrCRLF", t, "found CR without matching LF"))
              ELSE nextWordLoop(t, i + 1, quote, at, word, stops)
         ELSE step(quote, at, Append(word, c),
                   IF stops = <<>>
                   THEN <<[at |-> at, lineno |-> t.lineno, offset |-> i]>>
                   ELSE stops)
    ELSE IF c = quote
         THEN step("", at - 1, word,
                   Append(stops, [at |-> at, lineno |-> t.lineno, offset |-> i]))
         ELSE IF c \in {LF, CR}
         THEN IF loneCR
              THEN fail(errorAtf("ErrCRLF", t, "found CR without matching LF"))
              ELSE fail(errorAt("ErrUnquote", t))
         ELSE step(quote, at, Append(word, c), stops)

\* A nextWord whose Text is the source of the word, quotes and all
nextWordKeepingQuotes(t, pend) ==
    LET r == nextWordLoop(t, t.offset, "", 0, <<>>, <<>>)
    IN IF r.err.kind = "err"
       THEN Ret(r.t, pend, r.err)
       ELSE Ret([r.t EXCEPT !.lastToken = "WordToken",
                            !.lastWordEnd = r.t.offset],
                pend,
                Token("WordToken", SubSeq(t.line, t.offset, r.t.offset - 1),
                      FirstStop(r.stops, "lineno"), FirstStop(r.stops, "offset"),
                      r.stops))

nextWord(t, pend) ==
    LET r == nextWordLoop(t, t.offset, "", 0, <<>>, <<>>)
    IN IF r.err.kind = "err"
       THEN Ret(r.t, pend, r.err)
       ELSE IF r.t.offset - 1 > Len(r.t.line)
       THEN Ret([r.t EXCEPT !.lastToken = "errorToken"], pend,
                errorAt("ErrEOF", r.t))
       ELSE Ret([r.t EXCEPT !.lastToken = "WordToken",
                            !.lastWordEnd = r.t.offset],
                pend,
                Token("WordToken", r.word,
                      FirstStop(r.stops, "lineno"), FirstStop(r.stops, "offset"),
                      r.stops))

(***************************************************************************)
(* nextJSON: the bracket-balancing loop.  bracket is the closer awaited    *)
(* ("" for 0), stack the closers of the enclosing levels, ci the index of  *)
(* the current byte in srcbuf (0-based, as in the source), srcOffset the   *)
(* index of the opening bracket.                                           *)
(***************************************************************************)
\* A Text() that forgets srcOffset
ObjectTextFromLineStart(srcbuf, srcOffset, ci) == SubSeq(srcbuf, 1, ci + 1)

\* jsonToken.Text() once srcbuf is truncated after the closing bracket
ObjectText(srcbuf, srcOffset, ci) == SubSeq(srcbuf, srcOffset + 1, ci + 1)

RECURSIVE nextJSONLoop(_, _, _, _, _, _, _, _, _, _)
nextJSONLoop(t, pend, closed, bracket, escaped, ci, stack, srcbuf, srcOffset, stops) ==
    IF t.lineNil /\ pend = <<>> /\ ~closed
    THEN Blocked(t, pend)
    ELSE IF t.lineNil /\ ReadHitEOF(pend)
    THEN LET t1 == ReadLine(t, pend)
         IN Ret([t1 EXCEPT !.lastToken = "errorToken"], RestOf(pend),
                errorAtf("ErrEOF", t1, "JSON object not finished"))
    ELSE
    LET t1 == IF t.lineNil THEN ReadLine(t, pend) ELSE t
        p1 == IF t.lineNil THEN RestOf(pend) ELSE pend
        buf == IF t.lineNil THEN srcbuf \o t1.line ELSE srcbuf
        st == IF t.lineNil
              THEN Append(stops, [at |-> ci, lineno |-> t1.lineno, offset |-> t1.offset])
              ELSE stops
        c == t1.line[t1.offset]
        adv == LET t2 == [t1 EXCEPT !.offset = @ + 1]
               IN IF t2.offset > Len(t2.line) THEN SetNil(t2) ELSE t2
        go(b, e, s) ==
            nextJSONLoop(adv, p1, closed, b, e, ci + 1, s, buf, srcOffset, st)
        pop == SubSeq(stack, 1, Len(stack) - 1)
    IN
    IF bracket = DQ
    THEN IF c = LF
         THEN Ret(t1, p1, errorAtf("ErrUnquote", t1, "newline in JSON string"))
         ELSE IF escaped THEN go(bracket, FALSE, stack)
         ELSE IF c = BSL THEN go(bracket, TRUE, stack)
         ELSE IF c = DQ THEN go(stack[Len(stack)], escaped, pop)
         ELSE go(bracket, escaped, stack)
    ELSE IF c = bracket
    THEN IF stack = <<>>
         THEN Ret([t1 EXCEPT !.offset = @ + 1], p1,
                  Token("ObjectToken", ObjectText(buf, srcOffset, ci),
                        st[1].lineno, st[1].offset, st))
         ELSE go(stack[Len(stack)], escaped, pop)
    ELSE IF c = LBRACE
    THEN go(RBRACE, escaped, IF bracket # "" THEN Append(stack, bracket) ELSE stack)
    ELSE IF c = LBRACK
    THEN go(RBRACK, escaped, IF bracket # "" THEN Append(stack, bracket) ELSE stack)
    ELSE IF c = DQ
    THEN go(DQ, escaped, Append(stack, bracket))
    ELSE IF c = CR /\ (t1.offset = Len(t1.line) \/ t1.line[t1.offset + 1] # LF)
    THEN Ret(t1, p1, errorAt("ErrCRLF", t1))
    ELSE go(bracket, escaped, stack)

\* A nextJSON that takes the leading blanks of the line the object ends on
\* for an indentation
nextJSONJudgingIndent(t, pend, closed) ==
    LET r == nextJSONLoop(t, pend, closed, "", FALSE, t.offset - 1, <<>>, t.line,
                          t.offset - 1,
                          <<[at |-> t.offset - 1, lineno |-> t.lineno, offset |-> t.offset]>>)
    IN IF r.blocked \/ r.res.kind # "tok" THEN r
       ELSE [r EXCEPT !.t.indentStack = Append(@, LeadingBlanks(r.t.line))]

nextJSON(t, pend, closed) ==
    nextJSONLoop(t, pend, closed, "", FALSE, t.offset - 1, <<>>, t.line,
                 t.offset - 1,
                 <<[at |-> t.offset - 1, lineno |-> t.lineno, offset |-> t.offset]>>)

(***************************************************************************)
(* Tokenizer.Next.  The calls it makes to itself (over a blank, a blank    *)
(* line, a silent pop of the indent stack) are part of the one call.       *)
(***************************************************************************)
\* An end of the data that closes no block
AtEndOfDataNoDrain(t, pend) ==
    IF t.lastToken = "WordToken"
    THEN Ret([t EXCEPT !.lastToken = "TerminatorToken"], pend,
             Token("TerminatorToken", SliceFrom(t.line, t.offset - 1),
                   t.lineno, t.offset, NoStops))
    ELSE Ret([t EXCEPT !.lastToken = "errorToken"], pend, ioEOF)

\* An end of the data whose drain does not spare the root block
AtEndOfDataPoppingRoot(t, pend) ==
    IF t.lastToken = "WordToken"
    THEN Ret([t EXCEPT !.lastToken = "TerminatorToken"], pend,
             Token("TerminatorToken", SliceFrom(t.line, t.offset - 1),
                   t.lineno, t.offset, NoStops))
    ELSE IF t.lastToken \in {"TerminatorToken", "OutdentToken"}
            /\ Len(t.indentStack) > 0
    THEN Ret([t EXCEPT !.indentStack = SubSeq(@, 1, Len(@) - 1),
                       !.lastToken = "OutdentToken"],
             pend,
             Token("OutdentToken", <<>>, t.lineno, t.offset, NoStops))
    ELSE Ret([t EXCEPT !.lastToken = "errorToken"], pend, ioEOF)

\* An end of the data that terminates a line no Word began
AtEndOfDataTerminatingAnyLine(t, pend) ==
    IF t.lastToken \in {"WordToken", "nilToken"}
    THEN Ret([t EXCEPT !.lastToken = "TerminatorToken"], pend,
             Token("TerminatorToken", SliceFrom(t.line, t.offset - 1),
                   t.lineno, t.offset, NoStops))
    ELSE IF t.lastToken \in {"TerminatorToken", "OutdentToken"}
            /\ Len(t.indentStack) > 1
    THEN LET popped == SubSeq(t.indentStack, 1, Len(t.indentStack) - 1)
         IN Ret([t EXCEPT !.indentStack = popped, !.lastToken = "OutdentToken"],
                pend,
                Token("OutdentToken", popped[Len(popped)],
                      t.lineno, t.offset, NoStops))
    ELSE Ret([t EXCEPT !.lastToken = "errorToken"], pend, ioEOF)

\* The branch for the end of the data: len(t.line) <= t.offset-1
AtEndOfData(t, pend) ==
    IF t.lastToken = "WordToken"
    THEN Ret([t EXCEPT !.lastToken = "TerminatorToken"], pend,
             Token("TerminatorToken", SliceFrom(t.line, t.offset - 1),
                   t.lineno, t.offset, NoStops))
    ELSE IF t.lastToken \in {"TerminatorToken", "OutdentToken"}
            /\ Len(t.indentStack) > 1
    THEN LET popped == SubSeq(t.indentStack, 1, Len(t.indentStack) - 1)
         IN Ret([t EXCEPT !.indentStack = popped, !.lastToken = "OutdentToken"],
                pend,
                Token("OutdentToken", popped[Len(popped)],
                      t.lineno, t.offset, NoStops))
    ELSE Ret([t EXCEPT !.lastToken = "errorToken"], pend, ioEOF)

\* A case '#' that records the comment as the last token
AtHashRecordingComment(t, pend) ==
    IF t.lastToken = "WordToken"
    THEN LET len == Len(t.line)
             eol == IF t.line[len] = LF /\ t.line[len - 1] = CR
                    THEN len - 1 ELSE len
             skip == eol - t.lastWordEnd
         IN Ret([t EXCEPT !.lastToken = "TerminatorToken"], pend,
                Token("TerminatorToken",
                      SliceFrom(t.line, t.lastWordEnd + skip - 1),
                      t.lineno, t.lastWordEnd, NoStops))
    ELSE Ret(SetNil([t EXCEPT !.lastToken = "CommentToken"]), pend,
             Token("CommentToken", CommentText(t.line, t.offset),
                   t.lineno, t.offset, NoStops))

\* case '#'
AtHash(t, pend) ==
    IF t.lastToken = "WordToken"
    THEN LET len == Len(t.line)
             eol == IF t.line[len] = LF /\ t.line[len - 1] = CR
                    THEN len - 1 ELSE len
             skip == eol - t.lastWordEnd
         IN Ret([t EXCEPT !.lastToken = "TerminatorToken"], pend,
                Token("TerminatorToken",
                      SliceFrom(t.line, t.lastWordEnd + skip - 1),
                      t.lineno, t.lastWordEnd, NoStops))
    ELSE Ret(SetNil(t), pend,
             Token("CommentToken", CommentText(t.line, t.offset),
                   t.lineno, t.offset, NoStops))

RECURSIVE TokenizerNext(_, _, _)
\* A Next that lexes the word without judging the indentation of its line
AtWordStartUnjudged(t, pend, closed) == nextWord(t, pend)

\* default: the first byte of a word; the indentation is judged first
AtWordStart(t, pend, closed) ==
    IF t.lastToken = "nilToken" /\ t.offset # 1
    THEN Ret([t EXCEPT !.lastToken = "errorToken"], pend,
             errorAtf("ErrIndent", t, "first item must be unindented"))
    ELSE IF t.lastToken = "TerminatorToken"
    THEN LET indent == SubSeq(t.line, 1, t.offset - 1)
             tailData == t.indentStack[Len(t.indentStack)]
         IN IF HasPrefix(indent, tailData)
            THEN IF t.outdenting
                 THEN Ret([t EXCEPT !.lastToken = "errorToken"], pend,
                          errorAt("ErrOutdent", t))
                 ELSE IF Len(indent) # Len(tailData)
                 THEN Ret([t EXCEPT !.indentStack = Append(@, indent),
                                    !.lastToken = "IndentToken"],
                          pend,
                          Token("IndentToken", SubSeq(t.line, 1, t.offset - 1),
                                t.lineno, t.offset, NoStops))
                 ELSE nextWord(t, pend)
            ELSE IF HasPrefix(tailData, indent)
            THEN LET popped == SubSeq(t.indentStack, 1, Len(t.indentStack) - 1)
                     newTail == popped[Len(popped)]
                 IN IF newTail # indent
                    THEN TokenizerNext([t EXCEPT !.indentStack = popped,
                                                 !.outdenting = TRUE],
                                       pend, closed)
                    ELSE Ret([t EXCEPT !.indentStack = popped,
                                       !.outdenting = FALSE,
                                       !.lastToken = "OutdentToken"],
                             pend,
                             Token("OutdentToken", newTail,
                                   t.lineno, t.offset, NoStops))
            ELSE Ret([t EXCEPT !.lastToken = "errorToken"], pend,
                     errorAt("ErrOutdent", t))
    ELSE nextWord(t, pend)

\* The switch on the byte at t.offset
AtByte(t, pend, closed) ==
    LET c == t.line[t.offset]
    IN
    IF c \in {SP, TAB}
    THEN TokenizerNext([t EXCEPT !.offset = @ + 1], pend, closed)
    ELSE IF c = CR /\ (t.offset = Len(t.line) \/ t.line[t.offset + 1] # LF)
    THEN Ret([t EXCEPT !.lastToken = "errorToken"], pend,
             errorAtf("ErrCRLF", t, "found CR without matching LF"))
    ELSE IF c \in {CR, LF}
    THEN IF t.lastToken \in {"nilToken", "TerminatorToken"}
         THEN TokenizerNext(SetNil(t), pend, closed)
         ELSE Ret(SetNil([t EXCEPT !.lastToken = "TerminatorToken"]), pend,
                  Token("TerminatorToken", SliceFrom(t.line, t.offset - 1),
                        t.lineno, t.offset, NoStops))
    ELSE IF c = HASH
    THEN AtHash(t, pend)
    ELSE IF c \in {LBRACE, LBRACK}
    THEN IF t.lastToken # "WordToken"
         THEN Ret([t EXCEPT !.lastToken = "errorToken"], pend,
                  errorAtf("ErrToken", t,
                           IF c = LBRACE THEN "unexpected JSON object"
                                         ELSE "unexpected JSON array"))
         ELSE nextJSON(t, pend, closed)
    ELSE AtWordStart(t, pend, closed)

\* A Next that reads again when a read returns no byte at the end of the
\* input
TokenizerNextReadingOn(t, pend, closed) ==
    IF t.lastToken = "errorToken"
    THEN Ret(t, pend, ioEOF)
    ELSE IF t.lineNil /\ (pend = <<>> \/ Head(pend) = <<>>)
    THEN Blocked(t, pend)
    ELSE LET t1 == IF t.lineNil THEN ReadLine(t, pend) ELSE t
             p1 == IF t.lineNil THEN RestOf(pend) ELSE pend
         IN IF Len(t1.line) <= t1.offset - 1
            THEN AtEndOfData(t1, p1)
            ELSE AtByte(t1, p1, closed)

TokenizerNext(t, pend, closed) ==
    IF t.lastToken = "errorToken"
    THEN Ret(t, pend, ioEOF)
    ELSE IF t.lineNil /\ pend = <<>> /\ ~closed
    THEN Blocked(t, pend)
    ELSE LET t1 == IF t.lineNil THEN ReadLine(t, pend) ELSE t
             p1 == IF t.lineNil THEN RestOf(pend) ELSE pend
         IN IF Len(t1.line) <= t1.offset - 1
            THEN AtEndOfData(t1, p1)
            ELSE AtByte(t1, p1, closed)

(***************************************************************************)
(* The input.  A line is an indentation, a body and a line ending; a line  *)
(* without ending is the last one of the stream.                           *)
(***************************************************************************)
RECURSIVE Spaces(_)
Spaces(n) == IF n = 0 THEN <<>> ELSE <<SP>> \o Spaces(n - 1)

Indents == {Spaces(n) : n \in 0..MaxIndent} \cup {<<TAB>>}

Endings == {<<LF>>, <<CR, LF>>, <<>>}

\* Directive lines, blank lines and comment lines: the lines of block structure
BlockBodies == { <<>>, <<"a">>, <<HASH>> }

BlockLines == {i \o b \o e : i \in Indents, b \in BlockBodies, e \in {<<LF>>, <<>>}}

\* Lines for the lexing of words, comments and JSON arguments
WordBodies ==
    { <<"a">>, <<"a", SP, "b">>, <<"a", HASH>>,
      <<SQ, "a", SQ>>, <<SQ, "a">>, <<"a", DQ, SQ>>,
      <<"a", SQ, SP, HASH, DQ, SQ, "b", SP, HASH>>, <<DQ, BSL, DQ, "a">>,
      <<SQ, SQ, "a">> }

CRBodies ==
    { <<"a", CR, "b">>, <<"a", SP, CR, "b">>, <<HASH, CR, "a">>,
      <<SQ, CR, SQ>>, <<"a", SP, LBRACE, CR, RBRACE>>,
      <<"a", SP, LBRACE, DQ, CR, DQ, RBRACE>> }

JSONBodies ==
    { <<"a", SP, LBRACE, RBRACE>>, <<"a", SP, LBRACE>>, <<RBRACE>>,
      <<LBRACE>>, <<"a", SP, LBRACK, DQ, RBRACK, DQ, RBRACK>>,
      <<"a", SP, LBRACE, DQ>>,
      <<"a", SP, LBRACE, RBRACE, SP, LBRACK, RBRACK>>,
      <<"a", SP, LBRACK, LBRACE>>,
      <<SP, DQ, RBRACE, BSL, DQ, DQ, RBRACE, RBRACK, SP, HASH>> }

\* Lines for Parse: a directive at every indentation, a directive with an
\* argument and JSON, a comment, an unclosed quote, and a last line that
\* has no newline
ParseLines ==
    {Spaces(n) \o <<"a", LF>> : n \in 0..MaxIndent}
    \cup { <<"b", SP, "a", SP, LBRACE, RBRACE, LF>>, <<HASH, LF>>,
           <<SQ, LF>>, <<"a">> }

\* Lines for JSON arguments inside blocks: directives at two levels, one
\* that opens an object, and lines that close it after more, and after less,
\* leading whitespace than the block has
ObjLines ==
    { <<"a", LF>>, <<SP, "a", LF>>, <<SP, "a", SP, LBRACE, LF>>,
      <<SP, SP, SP, RBRACE, LF>>, <<RBRACE, SP, "b", LF>>, <<SP, SP, "a", LF>> }

LexLines ==
    {b \o e : b \in WordBodies \cup CRBodies \cup JSONBodies, e \in Endings}
    \cup {<<SP, "a", LF>>}

(***************************************************************************)
(* State.                                                                  *)
(***************************************************************************)
VARIABLES
    tk,            \* the Tokenizer
    pending,       \* the lines delivered to the stream and not yet read
    closed,        \* the stream has delivered its last line
    fed,           \* the number of lines delivered
    res,           \* what the last call of Tokenizer.Next returned
    consumed,      \* the bytes the last call of Next moved past
    prevLast,      \* t.lastToken when the last call of Next began
    prevAt,        \* the line and column the last call of Next began at
    wordEnd,       \* the line and column the call that returned the last Word stopped at
    afterErr,      \* a call of Next before the last one returned a syntax error
    nIndent,       \* Indent tokens returned so far
    nOutdent,      \* Outdent tokens returned so far
    stackAtTerm,   \* the indent stack when the last Terminator was returned
    outSinceTerm,  \* Outdent tokens returned since the last Terminator
    lastOutText,   \* Text() of the last Outdent token returned
    sinceTerm,     \* the tokens returned since the Terminator before the last token
    nTerm,         \* Terminator tokens returned so far
    frames,        \* the ParseTokens invocations in progress, innermost last
    pc,            \* "loop": Parse is running; "done": it returned; "panic"
    result,        \* the error Parse returned
    nctx,          \* contexts handed out so far
    log            \* the calls made so far: ParseTokens, handlers, End hooks

streamVars == <<pending, closed, fed>>
tokVars == <<tk, res, consumed, prevLast, prevAt, wordEnd, afterErr, nIndent, nOutdent,
             stackAtTerm, outSinceTerm, lastOutText, sinceTerm, nTerm>>
parseVars == <<frames, pc, result, nctx, log>>
vars == <<tk, pending, closed, fed, res, consumed, prevLast, prevAt, wordEnd,
          afterErr,
          nIndent, nOutdent, stackAtTerm, outSinceTerm, lastOutText,
          sinceTerm, nTerm, frames, pc, result, nctx, log>>

\* The bytes of the current line not yet consumed
Rest == IF tk.lineNil THEN <<>> ELSE SubSeq(tk.line, tk.offset, Len(tk.line))

\* The bytes a call moved past: from (t.line, t.offset) before the call,
\* through the lines it read, to (t.line, t.offset) after it.
Consumed(t0, p0, r) ==
    LET nread == Len(p0) - Len(r.pend)
        end(l) == IF r.t.lineNil THEN Len(l) ELSE r.t.offset - 1
        old == IF t0.lineNil THEN <<>>
               ELSE SubSeq(t0.line, t0.offset,
                           IF nread = 0 THEN end(t0.line) ELSE Len(t0.line))
    IN IF nread = 0 THEN old
       ELSE old \o Flatten(SubSeq(p0, 1, nread - 1))
                \o SubSeq(p0[nread], 1, end(p0[nread]))

InitTokenizer ==
    /\ tk = NewTokenizer
    /\ pending = <<>>
    /\ closed = FALSE
    /\ fed = 0
    /\ res = NoResult
    /\ consumed = <<>>
    /\ prevLast = "nilToken"
    /\ prevAt = [lineno |-> 1, offset |-> 1]
    /\ wordEnd = [lineno |-> 0, offset |-> 0]
    /\ afterErr = FALSE
    /\ nIndent = 0
    /\ nOutdent = 0
    /\ stackAtTerm = << <<>> >>
    /\ outSinceTerm = 0
    /\ lastOutText = <<>>
    /\ sinceTerm = <<>>
    /\ nTerm = 0

\* A call of Next is waiting in ReadBytes for a line not yet delivered
Waiting == ~closed /\ TokenizerNext(tk, pending, closed).blocked

\* The environment delivers the next line of the input.
\* The empty line closes the stream.
Deliver(l) ==
    /\ pending' = Append(pending, l)
    /\ closed' = ~EndsWithLF(l)
    /\ fed' = IF l = <<>> THEN fed ELSE fed + 1

\* One call of Tokenizer.Next returning r
Returns(r) ==
    /\ ~r.blocked
    /\ tk' = r.t
    /\ pending' = r.pend
    /\ res' = r.res
    /\ consumed' = Consumed(tk, pending, r)
    /\ prevLast' = tk.lastToken
    /\ prevAt' = IF tk.lineNil THEN [lineno |-> tk.lineno + 1, offset |-> 1]
                 ELSE [lineno |-> tk.lineno, offset |-> tk.offset]
    /\ wordEnd' = IF r.res.type = "WordToken"
                  THEN [lineno |-> r.t.lineno, offset |-> r.t.offset]
                  ELSE wordEnd
    /\ afterErr' = (afterErr \/ res.kind = "err")
    /\ nIndent' = IF r.res.type = "IndentToken" THEN nIndent + 1 ELSE nIndent
    /\ nOutdent' = IF r.res.type = "OutdentToken" THEN nOutdent + 1 ELSE nOutdent
    /\ stackAtTerm' = IF r.res.type = "TerminatorToken"
                      THEN r.t.indentStack ELSE stackAtTerm
    /\ outSinceTerm' = IF r.res.type = "TerminatorToken" THEN 0
                       ELSE IF r.res.type = "OutdentToken" THEN outSinceTerm + 1
                       ELSE outSinceTerm
    /\ lastOutText' = IF r.res.type = "OutdentToken" THEN r.res.text
                      ELSE lastOutText
    /\ sinceTerm' = IF r.res.kind # "tok" THEN sinceTerm
                    ELSE IF res.type = "TerminatorToken" THEN <<r.res>>
                    ELSE Append(sinceTerm, r.res)
    /\ nTerm' = IF r.res.type = "TerminatorToken" THEN nTerm + 1 ELSE nTerm
    /\ UNCHANGED <<closed, fed>>

(***************************************************************************)
(* ParseTokens.  Each invocation is a frame: its context, whether the      *)
(* context is an EndDirectiveHandler, and its locals block, line, words    *)
(* and json.  A context is a number; NilCtx is the nil interface value.    *)
(***************************************************************************)
NilCtx == 0
RootCtx == 1

NilBlock == [ctx |-> NilCtx, hasEnd |-> FALSE]

Frame(ctx, hasEnd) ==
    [ctx |-> ctx, hasEnd |-> hasEnd, block |-> NilBlock,
     line |-> <<>>, words |-> <<>>, json |-> <<>>]

\* An error as Parse returns it.  type is Err, cause is DetailErr; located
\* tells an errWithLocation from an error of another type.
ParseError(located, Err, DetailErr, Detail, File, lineno, offset) ==
    [kind |-> "err", located |-> located, type |-> Err, cause |-> DetailErr,
     detail |-> Detail, file |-> File, lineno |-> lineno, offset |-> offset]

NoError ==
    [kind |-> "nil", located |-> FALSE, type |-> "", cause |-> "",
     detail |-> "", file |-> "", lineno |-> 0, offset |-> 0]

\* errSimpleWrapper.Unwrap over the error kinds of the package; an error of
\* a handler wraps nothing ("" is nil)
Unwrap(err) ==
    IF err \in {"ErrToken", "ErrDirective"} THEN "ErrSyntax"
    ELSE IF err \in {"ErrEOF", "ErrCRLF", "ErrIndent", "ErrOutdent",
                     "ErrUnquote", "ErrJSONBracket"} THEN "ErrToken"
    ELSE IF err \in {"ErrUnknown", "ErrArguments"} THEN "ErrDirective"
    ELSE IF err = "ErrArgumentJSON" THEN "ErrArguments"
    ELSE ""

\* errors.Is(err, target) for an error that is not an errWithLocation
RECURSIVE Is(_, _)
Is(err, target) == err # "" /\ (err = target \/ Is(Unwrap(err), target))

\* errors.Is(err, target) for what Parse returned: errWithLocation.Is asks
\* DetailErr, Unwrap leads on to Err
errorsIs(err, target) ==
    /\ err.kind = "err"
    /\ Is(err.cause, target) \/ Is(err.type, target)

\* What a handler or an End hook returns as its error.  form: "nil", a
\* plain error ("bare"), one that wraps ErrArgumentJSON ("json"), an errorArg
\* as DirectiveErrorf and ArgumentErrorf build it ("arg", with its Index),
\* the error of an End hook ("end").
Error(form, index) ==
    [form |-> form, index |-> index,
     err |-> IF form = "arg"
             THEN IF index = 0 THEN "ErrDirective" ELSE "ErrArguments"
             ELSE IF form = "json" THEN "ErrArgumentJSON"
             ELSE IF form = "bare" THEN "handler"
             ELSE form,
     detail |-> ""]

\* errorArg{Err, Index, Detail}
errorArg(Err, Index, Detail) ==
    [form |-> "arg", index |-> Index, err |-> Err, detail |-> Detail]

NilError == Error("nil", 0)

\* The errors the handlers return: DirectiveErrorf has Index 0,
\* ArgumentErrorf(i, ...) has Index i + 1, or -1 when i is negative
HandlerErrors ==
    {Error("bare", 0), Error("json", 0)} \cup {Error("arg", i) : i \in -1..1}

\* ArgumentErrorf(i, "%w ...", err, ...): the errorArg wraps err, an error
\* of the caller or one of the kinds of the package
WrappingErrors ==
    {errorArg(e, i, "") :
        e \in {"handler", "ErrUnknown", "ErrArgumentJSON", "ErrToken"}, i \in {-1, 1}}

Failed(err) == err.form # "nil"

\* A handler returns an error that has a location already, as Parse and
\* ParseFile return them: an errWithLocation, with and without a cause
LocatedHandlerError(inner) ==
    [form |-> "located", index |-> 0, err |-> inner.type,
     detail |-> inner.detail, inner |-> inner]

\* errorAt(err, info) in the dispatcher
LocatedError(type, lineno, offset) ==
    ParseError(TRUE, type, "", "", "", lineno, offset)

\* The syntax error the tokenizer returned, as Parse returns it
SyntaxError(e) == ParseError(TRUE, e.type, "", e.detail, "", e.lineno, e.offset)

\* token.LineInfo(0) of a token kept in line
LineInfo0(tok) == [lineno |-> tok.lineno, offset |-> tok.offset]

\* errorArg.IntoLocation(tokens)
IntoLocation(err, tokens) ==
    LET n == Len(tokens)
        problemToken ==
            IF err.index >= 0 /\ err.index < n THEN tokens[err.index + 1]
            ELSE IF err.index < 0 /\ tokens[n - 1].type = "ObjectToken" THEN tokens[n - 1]
            ELSE tokens[n]
        isSyntax == Is(err.err, "ErrSyntax")
        actualErr == IF isSyntax THEN err.err
                     ELSE IF err.index = 0 THEN "ErrDirective" ELSE "ErrArguments"
        detailErr == IF isSyntax THEN "" ELSE err.err
    IN ParseError(TRUE, actualErr, detailErr, err.detail, "",
                  LineInfo0(problemToken).lineno, LineInfo0(problemToken).offset)

\* errorAt(err, info) of an err that is an errWithLocation: Err, Detail and
\* File are kept, the LineInfo is info, and DetailErr is left out
errorAtLocated(locErr, info) ==
    ParseError(TRUE, locErr.type, "", locErr.detail, locErr.file,
               info.lineno, info.offset)

\* The error ParseTokens returns for the error err of a handler
HandlerError(err, line) ==
    IF err.form = "arg" THEN IntoLocation(err, line)
    ELSE LET isJSON == IF err.form = "located"
                       THEN errorsIs(err.inner, "ErrArgumentJSON")
                       ELSE Is(err.err, "ErrArgumentJSON")
             info == IF isJSON THEN LineInfo0(line[Len(line) - 1])
                     ELSE LineInfo0(line[1])
         IN IF err.form = "located"
            THEN errorAtLocated(err.inner, info)
            ELSE LocatedError(err.err, info.lineno, info.offset)

\* The error of an End hook is returned as it is
EndError == ParseError(FALSE, "end", "", "", "", 0, 0)

\* ErrorInFile(err, filename): the errWithLocation it builds has the Err,
\* Detail and LineInfo of err and no DetailErr; any other error is returned
\* as it is
ErrorInFile(err, filename) ==
    IF err.kind = "err" /\ err.located
    THEN ParseError(TRUE, err.type, "", err.detail, filename, err.lineno, err.offset)
    ELSE err

\* ErrorLocation(err): err.(lineError) asks for a method Location() LineInfo,
\* which no error type of the package has (errWithLocation embeds LineInfo,
\* whose only method is String), so the zero LineInfo is returned
ErrorLocation(err) == [lineno |-> 0, offset |-> 0]

\* ParseFile(path, context), once Parse has returned
ParseFile(path) == ErrorInFile(result, path)

\* A record of the log
Entry(op, ctx, hasEnd, col, name, argv, json, ret, err) ==
    [op |-> op, ctx |-> ctx, hasEnd |-> hasEnd, col |-> col,
     name |-> name, argv |-> argv, json |-> json, ret |-> ret, err |-> err]

EnterEntry(ctx, hasEnd) ==
    Entry("ParseTokens", ctx, hasEnd, 0, <<>>, <<>>, <<>>, NilCtx, NilError)

EndEntry(ctx, err) ==
    Entry("End", ctx, TRUE, 0, <<>>, <<>>, <<>>, NilCtx, err)

Top == frames[Len(frames)]

SetTop(f) == [frames EXCEPT ![Len(frames)] = f]

InitParse ==
    /\ InitTokenizer
    /\ \E hasEnd \in BOOLEAN :
        /\ frames = <<Frame(RootCtx, hasEnd)>>
        /\ log = <<EnterEntry(RootCtx, hasEnd)>>
    /\ pc = "loop"
    /\ result = NoError
    /\ nctx = 1

\* A dispatcher that records the error and carries on
RecordErrorAndContinue(err) ==
    /\ result' = err
    /\ UNCHANGED <<pc, frames>>

\* Parse returns err: every invocation in progress returns it in turn
ReturnError(err) ==
    /\ pc' = "done"
    /\ result' = err
    /\ frames' = <<>>

\* case WordToken
OnWord ==
    LET r == TokenizerNext(tk, pending, closed)
    IN /\ pc = "loop"
       /\ Returns(r)
       /\ r.res.kind = "tok" /\ r.res.type = "WordToken"
       /\ frames' = SetTop([Top EXCEPT !.line = Append(@, r.res),
                                       !.words = Append(@, r.res.text)])
       /\ UNCHANGED <<pc, result, nctx, log>>

\* case ObjectToken
OnObject ==
    LET r == TokenizerNext(tk, pending, closed)
    IN /\ pc = "loop"
       /\ Returns(r)
       /\ r.res.kind = "tok" /\ r.res.type = "ObjectToken"
       /\ frames' = SetTop([Top EXCEPT !.line = Append(@, r.res),
                                       !.json = r.res.text])
       /\ UNCHANGED <<pc, result, nctx, log>>

\* A dispatcher that does not reset words after the handler call
DispatchKeepingWords(f, term, sub, err) ==
    LET line == Append(f.line, term)
        op == IF Len(f.json) = 0 THEN "Directive" ELSE "ObjectDirective"
        call == Entry(op, f.ctx, f.hasEnd, LineInfo0(line[1]).offset,
                      f.words[1], Tail(f.words), f.json, sub.ctx, err)
    IN /\ log' = Append(log, call)
       /\ nctx' = IF sub.ctx = NilCtx THEN nctx ELSE nctx + 1
       /\ IF Failed(err)
          THEN ReturnError(HandlerError(err, line))
          ELSE /\ frames' = SetTop([f EXCEPT !.block = sub, !.line = <<>>,
                                             !.json = <<>>])
               /\ UNCHANGED <<pc, result>>

\* The handler call of case TerminatorToken and what follows it.
\* sub: the sub-context the handler returned; err: the error it returned.
Dispatch(f, term, sub, err) ==
    LET line == Append(f.line, term)
        op == IF Len(f.json) = 0 THEN "Directive" ELSE "ObjectDirective"
        call == Entry(op, f.ctx, f.hasEnd, LineInfo0(line[1]).offset,
                      f.words[1], Tail(f.words), f.json, sub.ctx, err)
    IN /\ log' = Append(log, call)
       /\ nctx' = IF sub.ctx = NilCtx THEN nctx ELSE nctx + 1
       /\ IF Failed(err)
          THEN ReturnError(HandlerError(err, line))
          ELSE /\ frames' = SetTop([f EXCEPT !.block = sub, !.line = <<>>,
                                             !.words = <<>>, !.json = <<>>])
               /\ UNCHANGED <<pc, result>>

\* case TerminatorToken
OnTerminator ==
    LET r == TokenizerNext(tk, pending, closed)
    IN /\ pc = "loop"
       /\ Returns(r)
       /\ r.res.kind = "tok" /\ r.res.type = "TerminatorToken"
       /\ IF Top.words = <<>>
          THEN \* words[0]: index out of range
               /\ pc' = "panic"
               /\ UNCHANGED <<frames, result, nctx, log>>
          ELSE \/ \E sub \in {NilBlock} \cup {[ctx |-> nctx + 1, hasEnd |-> h] : h \in BOOLEAN} :
                      Dispatch(Top, r.res, sub, NilError)
               \/ \E err \in HandlerErrors : Dispatch(Top, r.res, NilBlock, err)

\* A dispatcher that enters the block whatever the handler returned
EnterAnyBlock ==
    LET r == TokenizerNext(tk, pending, closed)
    IN /\ pc = "loop"
       /\ Returns(r)
       /\ r.res.kind = "tok" /\ r.res.type = "IndentToken"
       /\ frames' = Append(frames, Frame(Top.block.ctx, Top.block.hasEnd))
       /\ log' = Append(log, EnterEntry(Top.block.ctx, Top.block.hasEnd))
       /\ UNCHANGED <<pc, result, nctx>>

\* case IndentToken
OnIndent ==
    LET r == TokenizerNext(tk, pending, closed)
    IN /\ pc = "loop"
       /\ Returns(r)
       /\ r.res.kind = "tok" /\ r.res.type = "IndentToken"
       /\ IF Top.block.ctx = NilCtx
          THEN /\ ReturnError(LocatedError("ErrIndent", r.res.lineno, r.res.offset))
               /\ UNCHANGED <<nctx, log>>
          ELSE /\ frames' = Append(frames, Frame(Top.block.ctx, Top.block.hasEnd))
               /\ log' = Append(log, EnterEntry(Top.block.ctx, Top.block.hasEnd))
               /\ UNCHANGED <<pc, result, nctx>>

\* After the token loop: the End hook, then the return to the caller.
\* failed: End returned an error.
Finish(failed) ==
    /\ log' = IF Top.hasEnd
              THEN Append(log, EndEntry(Top.ctx, IF failed THEN Error("end", 0) ELSE NilError))
              ELSE log
    /\ IF Top.hasEnd /\ failed
       THEN ReturnError(EndError)
       ELSE /\ frames' = SubSeq(frames, 1, Len(frames) - 1)
            /\ pc' = IF Len(frames) = 1 THEN "done" ELSE pc
            /\ UNCHANGED result
    /\ UNCHANGED nctx

\* case OutdentToken: break tokenLoop
OnOutdent ==
    LET r == TokenizerNext(tk, pending, closed)
    IN /\ pc = "loop"
       /\ Returns(r)
       /\ r.res.kind = "tok" /\ r.res.type = "OutdentToken"
       /\ \E failed \in (IF Top.hasEnd THEN BOOLEAN ELSE {FALSE}) : Finish(failed)

\* default: a Comment is skipped
OnComment ==
    LET r == TokenizerNext(tk, pending, closed)
    IN /\ pc = "loop"
       /\ Returns(r)
       /\ r.res.kind = "tok" /\ r.res.type = "CommentToken"
       /\ UNCHANGED parseVars

\* tok.Next() returned io.EOF: the loop ends and err is cleared
OnEOF ==
    LET r == TokenizerNext(tk, pending, closed)
    IN /\ pc = "loop"
       /\ Returns(r)
       /\ r.res.kind = "eof"
       /\ \E failed \in (IF Top.hasEnd THEN BOOLEAN ELSE {FALSE}) : Finish(failed)

\* tok.Next() returned a syntax error: it is returned as it is
OnSyntaxError ==
    LET r == TokenizerNext(tk, pending, closed)
    IN /\ pc = "loop"
       /\ Returns(r)
       /\ r.res.kind = "err"
       /\ ReturnError(SyntaxError(r.res))
       /\ UNCHANGED <<nctx, log>>

FeedParse ==
    /\ pc = "loop"
    /\ Waiting
    /\ \E l \in IF fed < MaxParseLines THEN ParseLines \cup {<<>>} ELSE {<<>>} : Deliver(l)
    /\ UNCHANGED tokVars
    /\ UNCHANGED parseVars

\* Parse(r, context)
Next ==
    \/ FeedParse
    \/ OnWord
    \/ OnObject
    \/ OnTerminator
    \/ OnIndent
    \/ OnOutdent
    \/ OnComment
    \/ OnEOF
    \/ OnSyntaxError

Spec == InitParse /\ [][Next]_vars

(***************************************************************************)
(* The reflective handler.  A context of the reflection API is a value     *)
(* whose methods are the directives; methodDirectiveHandler resolves the   *)
(* directive name to a method, checks its signature against the line and   *)
(* calls it.                                                               *)
(***************************************************************************)
DASH == "-"

\* unicode.ToUpper and unicode.ToLower on the characters of the names
ToUpper(c) == IF c = "a" THEN "A" ELSE IF c = "b" THEN "B" ELSE c

ToLower(c) == IF c = "A" THEN "a" ELSE IF c = "B" THEN "b" ELSE c

\* strings.ToLower(name)
ToLowerString(name) == [i \in 1..Len(name) |-> ToLower(name[i])]

\* The strings.Map of snakeToPascal: i the index of the character, the
\* flags those of the closure, out the characters kept so far
RECURSIVE snakeToPascalMap(_, _, _, _, _, _)
snakeToPascalMap(name, i, isFirstOfWord, isFirstOfName, needPrepend, out) ==
    IF i > Len(name)
    THEN [name |-> out, needPrepend |-> needPrepend]
    ELSE LET c == name[i]
             k == ToUpper(c)
         IN IF c = DASH
            THEN snakeToPascalMap(name, i + 1, TRUE, isFirstOfName, needPrepend, out)
            ELSE IF isFirstOfWord
            THEN snakeToPascalMap(name, i + 1, FALSE, FALSE,
                                  needPrepend \/ (k = c /\ isFirstOfName),
                                  Append(out, k))
            ELSE snakeToPascalMap(name, i + 1, isFirstOfWord, isFirstOfName,
                                  needPrepend, Append(out, c))

snakeToPascal(name) ==
    LET m == snakeToPascalMap(name, 1, TRUE, TRUE, FALSE, <<>>)
    IN IF m.needPrepend THEN <<"X">> \o m.name ELSE m.name

\* The parameters of a directive method: the kinds of the fixed ones, and
\* the element kind of the variadic one ("" when there is none)
Signatures ==
    << [params |-> <<>>, variadic |-> ""],
       [params |-> <<"string">>, variadic |-> ""],
       [params |-> <<"string", "string">>, variadic |-> ""],
       [params |-> <<"object">>, variadic |-> ""],
       [params |-> <<"string", "object">>, variadic |-> ""],
       [params |-> <<"object", "string">>, variadic |-> ""],
       [params |-> <<>>, variadic |-> "string"],
       [params |-> <<"string">>, variadic |-> "string"],
       [params |-> <<"object">>, variadic |-> "string"],
       [params |-> <<"object", "object">>, variadic |-> ""],
       [params |-> <<>>, variadic |-> "object"] >>

\* The results of a directive method
ResultTypes ==
    << <<>>, <<"error">>, <<"value">>, <<"value", "error">>,
       <<"value", "value", "error">> >>

\* A reflective context is numbered by the signature and the results its
\* directive methods have; the number after the last is a context that
\* implements DirectiveHandler and not ObjectDirectiveHandler.  The
\* negative of a number is the nil pointer of that context's type.
ReflectContexts == 1..(Len(Signatures) * Len(ResultTypes))

PatchedCtx == Len(Signatures) * Len(ResultTypes) + 1

Abs(n) == IF n < 0 THEN 0 - n ELSE n

SignatureOf(ctx) == Signatures[((Abs(ctx) - 1) \div Len(ResultTypes)) + 1]

ResultsOf(ctx) == ResultTypes[((Abs(ctx) - 1) % Len(ResultTypes)) + 1]

\* The directive methods of every reflective context, and End where the
\* context is an EndDirectiveHandler
MethodNames(hasEnd) ==
    { <<"A">>, <<"A", "B">>, <<"X", "1">> }
    \cup (IF hasEnd THEN { <<"E", "n", "d">> } ELSE {})

\* method.Type() of reflect.Value(ctx).MethodByName(methodName)
MethodType(ctx, methodName) ==
    IF methodName = <<"E", "n", "d">>
    THEN [params |-> <<>>, variadic |-> "", results |-> <<"error">>]
    ELSE [params |-> SignatureOf(ctx).params,
          variadic |-> SignatureOf(ctx).variadic,
          results |-> ResultsOf(ctx)]

\* The loop over the parameters, from index i (0-based) on
RECURSIVE FindObjIndex(_, _, _, _)
FindObjIndex(params, i, nargs, objIndex) ==
    IF i >= nargs
    THEN [bad |-> FALSE, objIndex |-> objIndex]
    ELSE IF params[i + 1] # "string"
    THEN IF objIndex = -1
         THEN FindObjIndex(params, i + 1, nargs, i)
         ELSE [bad |-> TRUE, objIndex |-> objIndex]
    ELSE FindObjIndex(params, i + 1, nargs, objIndex)

\* ArgumentErrorf(index, detail), without %w
ArgumentErrorf(index, detail) ==
    errorArg("ErrArguments", IF index < 0 THEN -1 ELSE index + 1, detail)

\* DirectiveErrorf pointing at the first argument instead of the directive
DirectiveErrorfAtArgument(err, detail) == errorArg(err, 1, detail)

\* DirectiveErrorf("%w ...", err, ...)
DirectiveErrorf(err, detail) == errorArg(err, 0, detail)

\* The errors a method of a context returns: an error of its own, and an
\* error of this package
MethodErrors == {"handler", "ErrUnknown"}

\* methodDirectiveHandler.ObjectDirective up to the call of the method.
\* object: the line carries JSON (object # nil).  call: the method is called.
Resolved(call, methodName, objIndex, err) ==
    [call |-> call, method |-> methodName, objIndex |-> objIndex, err |-> err]

ObjectDirective(ctx, hasEnd, name, nargv, object) ==
    LET methodName == snakeToPascal(name)
        refuse(err) == Resolved(FALSE, methodName, -1, err)
        unknown(detail) == refuse(DirectiveErrorf("ErrUnknown", detail))
    IN
    IF ToLowerString(name) # name THEN unknown("%q")
    ELSE IF methodName \notin MethodNames(hasEnd) THEN unknown("%q")
    ELSE
    LET methodType == MethodType(ctx, methodName)
        isVariadic == methodType.variadic # ""
        nargs0 == Len(methodType.params) + (IF isVariadic THEN 1 ELSE 0)
        nret == Len(methodType.results)
        nargs1 == IF isVariadic THEN nargs0 - 1 ELSE nargs0
        found == FindObjIndex(methodType.params, 0, nargs1,
                              IF object THEN -1 ELSE -2)
        nargs == IF object THEN nargs1 - 1 ELSE nargs1
    IN
    IF nret > 2 THEN unknown("%q")
    ELSE IF methodName = <<"E", "n", "d">> /\ nargs0 = 0 /\ nret = 1
            /\ methodType.results[1] = "error"
    THEN unknown("%q (.End is a reserved method)")
    ELSE IF isVariadic /\ methodType.variadic # "string"
    THEN unknown("%q (.%s has bad signature)")
    ELSE IF found.bad THEN unknown("%q (.%s has bad signature)")
    ELSE IF nargv < nargs
    THEN refuse(ArgumentErrorf(nargv + 3, "not enough arguments"))
    ELSE IF ~isVariadic /\ nargv > nargs
    THEN refuse(ArgumentErrorf(nargs, "too many arguments"))
    ELSE IF found.objIndex = -1
    THEN refuse(ArgumentErrorf(-1, "expected JSON argument"))
    ELSE Resolved(TRUE, methodName,
                  IF object THEN found.objIndex ELSE nargv, NilError)

\* The loop that sets the words of argv into argValues, past objIndex
RECURSIVE FillArgs(_, _, _, _)
FillArgs(args, argv, i, objIndex) ==
    IF i >= Len(argv) THEN args
    ELSE LET j == IF i >= objIndex THEN i + 1 ELSE i
         IN FillArgs([args EXCEPT ![j + 1] = [kind |-> "string", value |-> argv[i + 1]]],
                     argv, i + 1, objIndex)

\* argValues as method.Call receives it: nargv zero Values, one more for
\* the decoded object, set at objIndex, and the words of argv.  objIndex
\* is nargv when there is no object.
argValues(argv, object, objIndex) ==
    LET zero == [kind |-> "zero"]
        made == [k \in 1..Len(argv) |-> zero]
        withObject == IF object # <<>>
                      THEN [Append(made, zero) EXCEPT
                               ![objIndex + 1] = [kind |-> "object", json |-> object]]
                      ELSE made
    IN FillArgs(withObject, argv, 0, objIndex)

\* What a method returns as its context: nil, the nil pointer of the
\* context's type, or a context of that type
Values(ctx, hasEnd) ==
    { NilBlock, [ctx |-> 0 - Abs(ctx), hasEnd |-> hasEnd],
      [ctx |-> Abs(ctx), hasEnd |-> hasEnd] }

\* method.Call(argValues) and the handling of its results.  sub is the
\* first result where it is no error, failed tells that the error result
\* is not nil.
MethodCall(f, term, methodName, sub, failed) ==
    \E e \in (IF failed THEN MethodErrors ELSE {""}) :
    LET line == Append(f.line, term)
        err == IF failed THEN DirectiveErrorf(e, "") ELSE NilError
        block == IF Len(ResultsOf(f.ctx)) = 1 /\ failed THEN NilBlock ELSE sub
        call == Entry("Method", f.ctx, f.hasEnd, LineInfo0(line[1]).offset,
                      methodName, Tail(f.words), f.json, block.ctx, err)
    IN /\ log' = Append(log, call)
       /\ IF failed
          THEN ReturnError(HandlerError(err, line))
          ELSE /\ frames' = SetTop([f EXCEPT !.block = block, !.line = <<>>,
                                             !.words = <<>>, !.json = <<>>])
               /\ UNCHANGED <<pc, result>>
       /\ UNCHANGED nctx

\* The results a method of the context can return
MethodReturns(f, term, methodName) ==
    LET results == ResultsOf(f.ctx)
    IN IF results = <<>>
       THEN MethodCall(f, term, methodName, NilBlock, FALSE)
       ELSE IF results = <<"error">>
       THEN \E failed \in BOOLEAN : MethodCall(f, term, methodName, NilBlock, failed)
       ELSE IF results = <<"value">>
       THEN \E sub \in Values(f.ctx, f.hasEnd) :
                MethodCall(f, term, methodName, sub, FALSE)
       ELSE \E sub \in Values(f.ctx, f.hasEnd), failed \in BOOLEAN :
                MethodCall(f, term, methodName, sub, failed)

\* handler.Directive or handler.ObjectDirective of a reflective context
ReflectDispatch(f, term) ==
    LET line == Append(f.line, term)
        object == Len(f.json) # 0
        r == ObjectDirective(f.ctx, f.hasEnd, f.words[1], Len(f.words) - 1, object)
    IN IF ~r.call
       THEN /\ ReturnError(HandlerError(r.err, line))
            /\ UNCHANGED <<nctx, log>>
       ELSE \/ \* json.Unmarshal refuses the object
               /\ object
               /\ ReturnError(HandlerError(errorArg("json.Unmarshal", -1, ""), line))
               /\ UNCHANGED <<nctx, log>>
            \/ \* a method called on a nil pointer may dereference it
               /\ f.ctx < 0
               /\ pc' = "panic"
               /\ UNCHANGED <<frames, result, nctx, log>>
            \/ MethodReturns(f, term, r.method)

\* The located errors a handler passes on: those of a parse of another
\* file, an unknown directive there and an argument error with its cause
LocatedErrors ==
    { LocatedHandlerError(ParseError(TRUE, "ErrUnknown", "", "%q", "inc", 7, 3)),
      LocatedHandlerError(ParseError(TRUE, "ErrArguments", "handler", "", "inc", 7, 3)) }

\* handler.Directive or handler.ObjectDirective of a patchedHandler
PatchedDispatch(f, term) ==
    IF Len(f.json) = 0
    THEN \/ \E sub \in {NilBlock, [ctx |-> f.ctx, hasEnd |-> f.hasEnd]} :
                Dispatch(f, term, sub, NilError)
         \/ \E err \in HandlerErrors \cup WrappingErrors \cup LocatedErrors :
                Dispatch(f, term, NilBlock, err)
    ELSE /\ ReturnError(HandlerError(Error("json", 0), Append(f.line, term)))
         /\ UNCHANGED <<nctx, log>>

\* case TerminatorToken, the handler being what getDirectiveHandlerFor
\* gives for the context
OnTerminatorOfContext ==
    LET r == TokenizerNext(tk, pending, closed)
    IN /\ pc = "loop"
       /\ Returns(r)
       /\ r.res.kind = "tok" /\ r.res.type = "TerminatorToken"
       /\ IF Top.words = <<>>
          THEN /\ pc' = "panic"
               /\ UNCHANGED <<frames, result, nctx, log>>
          ELSE IF Top.ctx = PatchedCtx
          THEN PatchedDispatch(Top, r.res)
          ELSE ReflectDispatch(Top, r.res)

\* Lines for the reflective handler: the directive a with up to two
\* arguments, with and without JSON, a sub-directive, and directive names
\* that resolve to other methods or to none, a comment, and a directive
\* with a word after its JSON, which the tokenizer lets through
ReflectLines ==
    { <<"a", LF>>, <<"a", SP, "b", LF>>, <<"a", SP, "b", SP, "b", LF>>,
      <<"a", SP, LBRACE, RBRACE, LF>>, <<"a", SP, "b", SP, LBRACE, RBRACE, LF>>,
      <<"a", SP, "b", SP, "b", SP, LBRACE, RBRACE, LF>>,
      <<SP, "a", LF>>,
      <<DASH, "a", LF>>, <<"1", LF>>, <<"A", LF>>, <<"a", DASH, "b", LF>>,
      <<"b", LF>>, <<HASH, LF>>,
      <<"a", SP, LBRACE, RBRACE, SP, "b", LF>> }

InitReflect ==
    /\ InitTokenizer
    /\ \E ctx \in ReflectContexts \cup {PatchedCtx}, hasEnd \in BOOLEAN :
        /\ frames = <<Frame(ctx, hasEnd)>>
        /\ log = <<EnterEntry(ctx, hasEnd)>>
    /\ pc = "loop"
    /\ result = NoError
    /\ nctx = 1

FeedReflect ==
    /\ pc = "loop"
    /\ Waiting
    /\ \E l \in IF fed < MaxReflectLines THEN ReflectLines \cup {<<>>} ELSE {<<>>} : Deliver(l)
    /\ UNCHANGED tokVars
    /\ UNCHANGED parseVars

\* Parse(r, context) for a context of the reflection API or a plain
\* DirectiveHandler
NextReflect ==
    \/ FeedReflect
    \/ OnWord
    \/ OnObject
    \/ OnTerminatorOfContext
    \/ OnIndent
    \/ OnOutdent
    \/ OnComment
    \/ OnEOF
    \/ OnSyntaxError

SpecReflect == InitReflect /\ [][NextReflect]_vars

(***************************************************************************)
(* The tokenizer on its own, as testTokenSequence drives it: Next is       *)
(* called again and again.                                                 *)
(***************************************************************************)
InitTok ==
    /\ InitTokenizer
    /\ frames = <<>>
    /\ log = <<>>
    /\ pc = "idle"
    /\ result = NoError
    /\ nctx = 0

FeedBlock ==
    /\ Waiting
    /\ \E l \in IF fed < MaxLines THEN BlockLines \cup {<<>>} ELSE {<<>>} : Deliver(l)
    /\ UNCHANGED tokVars
    /\ UNCHANGED parseVars

FeedLex ==
    /\ Waiting
    /\ \E l \in IF fed < MaxLexLines THEN LexLines \cup {<<>>} ELSE {<<>>} : Deliver(l)
    /\ UNCHANGED tokVars
    /\ UNCHANGED parseVars

CallNext ==
    LET r == TokenizerNext(tk, pending, closed)
    IN Returns(r) /\ UNCHANGED parseVars

\* Block structure: lines of every indentation
NextTok == FeedBlock \/ CallNext

SpecTok == InitTok /\ [][NextTok]_vars

\* Lexing: lines of every content
NextLex == FeedLex \/ CallNext

SpecLex == InitTok /\ [][NextLex]_vars

FeedObj ==
    /\ Waiting
    /\ \E l \in IF fed < MaxObjLines THEN ObjLines \cup {<<>>} ELSE {<<>>} : Deliver(l)
    /\ UNCHANGED tokVars
    /\ UNCHANGED parseVars

\* JSON arguments in nested blocks
NextObj == FeedObj \/ CallNext

SpecObj == InitTok /\ [][NextObj]_vars

(***************************************************************************)
(* Claims about the tokenizer.                                             *)
(***************************************************************************)
IsTok(type) == res.kind = "tok" /\ res.type = type

IsErr(type) == res.kind = "err" /\ res.type = type

\* The last call returned the first Word of a directive line
FirstWordOfLine == IsTok("WordToken") /\ prevLast # "WordToken"

\* The stack entry k levels below the top of the stack st
Below(st, k) == st[Len(st) - k]

\* C1: for a well-formed input (no syntax error up to end-of-stream), at
\* end-of-stream as many Outdent tokens as Indent tokens have been returned,
\* and at no point more Outdents than Indents.
C1_IndentsBalanced ==
    /\ nOutdent <= nIndent
    /\ (res.kind = "eof" /\ ~afterErr) => nOutdent = nIndent

\* The half of C1 the code keeps: never more Outdents than Indents.
C1_NeverMoreOutdents == nOutdent <= nIndent

\* C2: when a directive line's indentation equals the stack entry k >= 1
\* levels below the top, exactly k Outdent tokens are returned before the
\* first Word of the line, the last of them carrying the indentation returned
\* to, and the outdenting flag is false when that Word is returned.
C2_OneOutdentPerClosedBlock ==
    FirstWordOfLine =>
        \A k \in 1..(Len(stackAtTerm) - 1) :
            Below(stackAtTerm, k) = LeadingBlanks(tk.line) =>
                /\ outSinceTerm = k
                /\ lastOutText = LeadingBlanks(tk.line)
                /\ ~tk.outdenting

\* C5: after Next has returned a syntax error, every later call returns
\* end-of-stream and no token.
C5_EOFAfterError == afterErr => res.kind = "eof"

\* A CR among the consumed bytes that no LF follows
LoneCRIn(bytes, rest) ==
    \E i \in 1..Len(bytes) :
        /\ bytes[i] = CR
        /\ LET all == bytes \o rest
           IN i = Len(all) \/ all[i + 1] # LF

\* C9: a CR not immediately followed by LF makes Next return a line-ending
\* error wherever it occurs; no call moves past it returning anything else.
C9_LoneCRIsError ==
    (~afterErr /\ LoneCRIn(consumed, Rest)) => IsErr("ErrCRLF")

RECURSIVE OpenQuote(_, _)
\* The quote still open after the bytes w of a word, "" when none is
OpenQuote(w, quote) ==
    IF w = <<>> THEN quote
    ELSE IF quote = ""
    THEN OpenQuote(Tail(w), IF Head(w) \in {DQ, SQ} THEN Head(w) ELSE "")
    ELSE OpenQuote(Tail(w), IF Head(w) = quote THEN "" ELSE quote)

RECURSIVE StripLeading(_)
StripLeading(w) ==
    IF w # <<>> /\ Head(w) \in {SP, TAB, CR, LF}
    THEN StripLeading(Tail(w)) ELSE w

\* The last call went through the bytes of a word and left a quote open
LexedOpenQuote ==
    LET w == StripLeading(consumed)
    IN /\ ~afterErr
       /\ w # <<>>
       /\ Head(w) \notin {HASH, LBRACE, LBRACK}
       /\ OpenQuote(w, "") # ""

AtNewline == Rest \in {<<LF>>, <<CR, LF>>}

AtEndOfInput == Rest = <<>> /\ ~tk.lineNil /\ ~EndsWithLF(tk.line)

\* C10: if a quoted run is still open when a newline or the end of input is
\* reached, Next returns an unclosed-quotes error and no Word token.
C10_UnclosedQuotes ==
    (LexedOpenQuote /\ (AtNewline \/ AtEndOfInput)) => IsErr("ErrUnquote")

\* The half of C10 the code keeps: a newline inside quotes.
C10_NewlineInQuotes ==
    (LexedOpenQuote /\ AtNewline) => IsErr("ErrUnquote")

\* The type of the token returned before the result of the last call;
\* "none" at the start of the input
PrevTokenType ==
    LET n == Len(sinceTerm)
    IN IF res.kind = "tok"
       THEN IF n >= 2 THEN sinceTerm[n - 1].type
            ELSE IF nTerm = 0 THEN "none" ELSE "TerminatorToken"
       ELSE IF n >= 1 THEN sinceTerm[n].type ELSE "none"

\* The first byte the last call met after blanks and blank lines; "" if none
FirstByteMet ==
    LET w == StripLeading(consumed \o Rest)
    IN IF w = <<>> THEN "" ELSE Head(w)

\* C11: a '{' or '[' at a word position when the token before it was not a
\* Word (start of input, after a Terminator, Indent, Outdent or Object) makes
\* Next return an unexpected-JSON error; JSON lexing starts only right after
\* a Word.
C11_JSONOnlyAfterWord ==
    /\ (~afterErr /\ res.kind # "none" /\ FirstByteMet \in {LBRACE, LBRACK}
        /\ PrevTokenType # "WordToken")
       => IsErr("ErrToken")
    /\ IsTok("ObjectToken") => PrevTokenType = "WordToken"

\* The part of C11 the code keeps: no JSON at the start of a line
C11_NoJSONAtLineStart ==
    (~afterErr /\ res.kind # "none" /\ FirstByteMet \in {LBRACE, LBRACK}
     /\ PrevTokenType \in {"none", "TerminatorToken", "CommentToken"})
    => IsErr("ErrToken")

RECURSIVE ClosesAt(_, _, _, _, _)
\* The index of the first byte of bytes, from i on, at which no bracket
\* remains open; 0 when there is none.  open: the closers awaited, innermost
\* last; inString: inside a JSON string; escaped: after a backslash in it.
ClosesAt(bytes, i, open, inString, escaped) ==
    IF i > Len(bytes) THEN 0
    ELSE LET c == bytes[i]
             next(o, s, e) == ClosesAt(bytes, i + 1, o, s, e)
         IN IF inString
            THEN IF escaped THEN next(open, TRUE, FALSE)
                 ELSE IF c = BSL THEN next(open, TRUE, TRUE)
                 ELSE IF c = DQ THEN next(open, FALSE, FALSE)
                 ELSE next(open, TRUE, FALSE)
            ELSE IF c = DQ THEN next(open, TRUE, FALSE)
            ELSE IF c = LBRACE THEN next(Append(open, RBRACE), FALSE, FALSE)
            ELSE IF c = LBRACK THEN next(Append(open, RBRACK), FALSE, FALSE)
            ELSE IF open # <<>> /\ c = open[Len(open)]
            THEN IF Len(open) = 1 THEN i
                 ELSE next(SubSeq(open, 1, Len(open) - 1), FALSE, FALSE)
            ELSE next(open, FALSE, FALSE)

\* C12: the Text of an Object token is exactly the bytes the call went
\* through from the opening bracket on, over any number of lines, and it
\* ends at the first byte at which no bracket remains open: brackets in
\* strings are not counted, only an unescaped '"' closes a string.
C12_ObjectTextIsBalancedSpan ==
    IsTok("ObjectToken") =>
        /\ res.text = StripLeading(consumed)
        /\ Head(res.text) \in {LBRACE, LBRACK}
        /\ ClosesAt(res.text, 1, <<>>, FALSE, FALSE) = Len(res.text)

\* C12 at work: an Object of two lines and two levels with a string that
\* holds a closing bracket and an escaped quote
C12_NestedObjectOverLines ==
    /\ IsTok("ObjectToken")
    /\ \E i, j, k \in 1..Len(res.text) :
        /\ res.text[i] = LF /\ res.text[j] = BSL
        /\ i < k /\ k < j /\ res.text[k] = RBRACE
    /\ res.text[2] = LBRACE

\* The step returned a token of a directive whose JSON argument has been
\* lexed: the Object itself, or a later token up to the Terminator
AfterObject ==
    /\ sinceTerm' # sinceTerm
    /\ \E i \in 1..Len(sinceTerm') : sinceTerm'[i].type = "ObjectToken"

JSONKeepsIndentStack ==
    AfterObject =>
        /\ tk'.indentStack = tk.indentStack
        /\ res'.type \notin {"IndentToken", "OutdentToken"}

\* C13: lexing a JSON argument, over however many lines and whatever their
\* leading whitespace, leaves the indent stack unchanged and returns no
\* Indent or Outdent; the stack reaches the Terminator of the directive, and
\* so the next directive line, as it was before the JSON began.
C13_JSONLeavesIndentStack == [][JSONKeepsIndentStack]_vars

\* C13 at work: inside a block, an Object whose second line is indented
\* deeper than the block
C13_ObjectInsideBlock ==
    /\ IsTok("ObjectToken")
    /\ Len(tk.indentStack) = 2
    /\ res.text = <<LBRACE, LF, SP, SP, SP, RBRACE>>

\* The word that begins at s[i], read as the claim describes it: outside
\* quotes (q = "") a quote opens a run and a space, a tab, a '#' or the end
\* of the line ends the word; inside a run only the same quote closes it and
\* every other byte is literal.  end is the index of the byte after the word.
RECURSIVE Unquote(_, _, _, _)
Unquote(s, i, q, acc) ==
    IF i > Len(s)
    THEN [text |-> acc, end |-> i]
    ELSE IF q = ""
    THEN IF \/ s[i] \in {SP, TAB, HASH, LF}
            \/ (s[i] = CR /\ i < Len(s) /\ s[i + 1] = LF)
         THEN [text |-> acc, end |-> i]
         ELSE IF s[i] \in {SQ, DQ}
         THEN Unquote(s, i + 1, s[i], acc)
         ELSE Unquote(s, i + 1, "", Append(acc, s[i]))
    ELSE IF s[i] = q
         THEN Unquote(s, i + 1, "", acc)
         ELSE Unquote(s, i + 1, q, Append(acc, s[i]))

\* C14: the Text of a Word token is the unquoted runs and the contents of
\* the quoted runs of its source, in order, the delimiting quotes removed;
\* the other quote, '#', space, tab and backslash are literal inside a run;
\* the word ends at the first unquoted space, tab, '#' or line end.
C14_WordTextIsUnquotedSource ==
    IsTok("WordToken") =>
        LET src == StripLeading(consumed)
            w == Unquote(src \o Rest, 1, "", <<>>)
        IN /\ res.text = w.text
           /\ w.end = Len(src) + 1

\* C14 at work: a word of an unquoted run, a quoted run holding a space, a
\* '#' and the other quote, and another unquoted run
C14_MixedRuns ==
    /\ IsTok("WordToken")
    /\ StripLeading(consumed) = <<"a", SQ, SP, HASH, DQ, SQ, "b">>
    /\ res.text = <<"a", SP, HASH, DQ, "b">>

\* The blank bytes and line ends the last call moved over before the first
\* byte it met, the part of them on the line of that byte, and that line
MetLead ==
    LET s == consumed \o Rest
    IN SubSeq(s, 1, Len(s) - Len(StripLeading(s)))

RECURSIVE AfterLastLF(_)
AfterLastLF(s) ==
    IF s = <<>> \/ s[Len(s)] = LF THEN <<>>
    ELSE Append(AfterLastLF(SubSeq(s, 1, Len(s) - 1)), s[Len(s)])

RECURSIVE CountLF(_)
CountLF(s) ==
    IF s = <<>> THEN 0
    ELSE (IF Head(s) = LF THEN 1 ELSE 0) + CountLF(Tail(s))

MetIndent == AfterLastLF(MetLead)
MetLine == prevAt.lineno + CountLF(MetLead)

\* The tokens returned before the last call
TokensBefore ==
    IF res.kind = "tok" THEN SubSeq(sinceTerm, 1, Len(sinceTerm) - 1) ELSE sinceTerm

\* The last call met the first word of the file: nothing but Comment tokens
\* was returned before it
MetFirstWord ==
    /\ ~afterErr
    /\ res.kind \in {"tok", "err"}
    /\ nTerm = 0
    /\ \A i \in 1..Len(TokensBefore) : TokensBefore[i].type = "CommentToken"
    /\ FirstByteMet \notin {"", HASH, LBRACE, LBRACK}

\* C15: when the first line that carries a word, after any blank and
\* comment-only lines, has leading whitespace, the call that meets the word
\* returns an unexpected-indent error at the line and column of the word.
C15_FirstWordIndented ==
    (MetFirstWord /\ MetIndent # <<>>) =>
        /\ IsErr("ErrIndent")
        /\ res.lineno = MetLine
        /\ res.offset = Len(MetIndent) + 1

\* C15 at work: a comment line and a blank line, then a word after two spaces
C15_IndentedAfterComment ==
    /\ MetFirstWord
    /\ Len(TokensBefore) = 1
    /\ MetIndent = <<SP, SP>>
    /\ MetLine = 3
    /\ IsErr("ErrIndent")

\* The tokens returned since the last Terminator and before the last call
TokensSinceTerm ==
    IF TokensBefore # <<>> /\ TokensBefore[Len(TokensBefore)].type = "TerminatorToken"
    THEN <<>>
    ELSE TokensBefore

\* The last call met the first word of a directive line that follows a
\* Terminator: nothing but Comment tokens was returned in between
MetDirectiveLine ==
    /\ ~afterErr
    /\ res.kind \in {"tok", "err"}
    /\ nTerm >= 1
    /\ res.type # "TerminatorToken"
    /\ \A i \in 1..Len(TokensSinceTerm) : TokensSinceTerm[i].type = "CommentToken"
    /\ FirstByteMet \notin {"", HASH, LBRACE, LBRACK}

\* indent matches no entry of the stack and does not extend its top
Unmatched(indent, stack) ==
    LET top == stack[Len(stack)]
    IN /\ \A i \in 1..Len(stack) : stack[i] # indent
       /\ ~(Len(indent) > Len(top) /\ SubSeq(indent, 1, Len(top)) = top)

UnmatchedIsError ==
    (MetDirectiveLine /\ Unmatched(MetIndent, stackAtTerm)) =>
        /\ IsErr("ErrOutdent")
        /\ res.lineno = MetLine
        /\ res.offset = Len(MetIndent) + 1

NothingAfterUnmatched == IsErr("ErrOutdent") => res'.kind # "tok"

\* C16: a directive line whose indentation neither equals the top of the
\* indent stack, nor strictly extends it, nor equals a lower entry gets an
\* unmatched-indent error at the line and column of its first word, and no
\* token of that line is returned.
C16_UnmatchedIndent == []UnmatchedIsError /\ [][NothingAfterUnmatched]_vars

\* C16 at work: a block indented by two spaces, then a line indented by one
C16_BetweenTwoLevels ==
    /\ MetDirectiveLine
    /\ stackAtTerm = << <<>>, <<SP, SP>> >>
    /\ MetIndent = <<SP>>
    /\ IsErr("ErrOutdent")

\* Next returned io.EOF and no syntax error was returned before it
CleanEOF == res.kind = "eof" /\ ~afterErr

\* The tokens returned after the last Terminator
AfterLastTerm ==
    IF sinceTerm # <<>> /\ sinceTerm[Len(sinceTerm)].type = "TerminatorToken"
    THEN <<>>
    ELSE sinceTerm

EOFClosesEveryBlock ==
    CleanEOF =>
        /\ tk.indentStack = << <<>> >>
        /\ \A i \in 1..Len(AfterLastTerm) :
               AfterLastTerm[i].type \in {"CommentToken", "OutdentToken"}
        /\ \A i, j \in 1..Len(AfterLastTerm) :
               (AfterLastTerm[i].type = "OutdentToken" /\ i < j)
                   => AfterLastTerm[j].type = "OutdentToken"
        /\ nTerm >= 1 => outSinceTerm = Len(stackAtTerm) - 1
        /\ nTerm = 0 => outSinceTerm = 0

EOFStays == res.kind = "eof" => res'.kind = "eof"

\* C17: at the end of the input, with or without a final newline, a last
\* Word is followed by a Terminator, then one Outdent is returned for each
\* entry of the indent stack above the root, then io.EOF with the stack
\* holding only the root; every later call returns io.EOF.
C17_EndOfInput == []EOFClosesEveryBlock /\ [][EOFStays]_vars

\* C17 at work: the input ends two blocks deep, its last line without a
\* newline
C17_TwoBlocksOpenAtEnd ==
    /\ CleanEOF
    /\ outSinceTerm = 2
    /\ sinceTerm[Len(sinceTerm)].type = "OutdentToken"
    /\ ~tk.lineNil
    /\ tk.line # <<>>
    /\ ~EndsWithLF(tk.line)

\* The last call returned the Terminator of a directive that a '#' ends
TerminatedByComment ==
    /\ IsTok("TerminatorToken")
    /\ Rest # <<>>
    /\ Head(Rest) = HASH

TerminatorAfterLastWord ==
    TerminatedByComment =>
        /\ res.lineno = wordEnd.lineno
        /\ res.offset = wordEnd.offset

CommentFollowsTerminator ==
    (TerminatedByComment /\ res' # res) =>
        /\ res'.kind = "tok"
        /\ res'.type = "CommentToken"
        /\ res'.lineno = tk.lineno
        /\ res'.offset = tk.offset
        /\ tk'.lineNil
        /\ tk'.lastToken = "TerminatorToken"

\* C18: when an unquoted '#' follows the words (and the JSON argument, if
\* any) of a directive, Next returns a Terminator located at the line and
\* column of the character after the last word, then a Comment located at
\* the '#'; the line is then used up and the next line starts a directive.
C18_TrailingComment == []TerminatorAfterLastWord /\ [][CommentFollowsTerminator]_vars

\* C18 where the '#' stands on the line of the last word
C18_TrailingCommentOnWordLine ==
    (TerminatedByComment /\ wordEnd.lineno = tk.lineno) =>
        /\ res.lineno = wordEnd.lineno
        /\ res.offset = wordEnd.offset

\* The line ending of the line s: "\n", "\r\n", or nothing at the end of
\* the input
LineEnding(s) ==
    IF Len(s) >= 2 /\ s[Len(s) - 1] = CR /\ s[Len(s)] = LF THEN <<CR, LF>>
    ELSE IF Len(s) >= 1 /\ s[Len(s)] = LF THEN <<LF>>
    ELSE <<>>

\* The line ending that ended the directive whose Terminator was returned:
\* that of the line of the trailing comment, or else what the call moved
\* past after the blanks that follow the last word
EndingOfDirective ==
    IF Rest # <<>>
    THEN LineEnding(tk.line)
    ELSE SubSeq(consumed, Len(LeadingBlanks(consumed)) + 1, Len(consumed))

\* C19: the Text of every Terminator is the line ending that ended the
\* directive: "\n", "\r\n", or empty at the end of the input, also when a
\* trailing comment ended the directive.
C19_TerminatorText ==
    IsTok("TerminatorToken") =>
        /\ res.text \in {<<LF>>, <<CR, LF>>, <<>>}
        /\ res.text = EndingOfDirective

\* C19 for the Terminators that a line end or the end of the input gives
C19_TerminatorTextAtLineEnd ==
    (IsTok("TerminatorToken") /\ Rest = <<>>) =>
        /\ res.text \in {<<LF>>, <<CR, LF>>, <<>>}
        /\ res.text = EndingOfDirective

\* C19 for the Terminators before a trailing comment that a newline follows
C19_TerminatorTextBeforeComment ==
    (IsTok("TerminatorToken") /\ Rest # <<>> /\ EndsWithLF(tk.line)) =>
        res.text = LineEnding(tk.line)

\* The column of the first byte the last call met
MetColumn ==
    IF CountLF(MetLead) = 0 THEN prevAt.offset + Len(MetLead)
    ELSE Len(MetIndent) + 1

\* The index in the source w of a word of the first byte of its text: the
\* quotes that delimit runs are passed over
RECURSIVE FirstTextIndex(_, _, _)
FirstTextIndex(w, i, q) ==
    IF i > Len(w) THEN i
    ELSE IF q = "" /\ w[i] \in {SQ, DQ} THEN FirstTextIndex(w, i + 1, w[i])
    ELSE IF q # "" /\ w[i] = q THEN FirstTextIndex(w, i + 1, "")
    ELSE i

\* LineInfo(0) of the token returned is at line l, column c
LocatedAt(l, c) == res.lineno = l /\ res.offset = c

WordAtItsText ==
    (IsTok("WordToken") /\ res.text # <<>>) =>
        LocatedAt(MetLine,
                  MetColumn + FirstTextIndex(StripLeading(consumed), 1, "") - 1)

ObjectAtItsBracket == IsTok("ObjectToken") => LocatedAt(MetLine, MetColumn)

CommentAtItsHash == IsTok("CommentToken") => LocatedAt(MetLine, MetColumn)

\* A Terminator that a line ending gave is located at the first byte of
\* that line ending
TerminatorAtLineEnding ==
    (IsTok("TerminatorToken") /\ Rest = <<>> /\ EndingOfDirective # <<>>) =>
        LocatedAt(prevAt.lineno, prevAt.offset + Len(LeadingBlanks(consumed)))

\* C20: LineInfo(0) of every token is the 1-based line and column of the
\* token's first source character: for a Word the column where its text
\* begins, for an Object its opening bracket, for a Comment its '#', for the
\* Terminator of a line its line ending.
C20_LineInfoAtFirstCharacter ==
    /\ WordAtItsText
    /\ ObjectAtItsBracket
    /\ CommentAtItsHash
    /\ TerminatorAtLineEnding

\* C20 for every token but the Words whose source begins with an empty
\* quoted run
C20_LineInfoButAfterEmptyRun ==
    LET w == StripLeading(consumed)
    IN (IsTok("WordToken") /\ Len(w) >= 2 /\ w[1] \in {SQ, DQ} /\ w[2] = w[1])
       \/ C20_LineInfoAtFirstCharacter

(***************************************************************************)
(* Claims about Parse.  The log holds, in order, every ParseTokens         *)
(* invocation, every handler call and every End call made so far; col is   *)
(* the column of the directive's first word, one more than the length of   *)
(* its indentation.                                                        *)
(***************************************************************************)
IsCall(e) == e.op \in {"Directive", "ObjectDirective"}

Calls == {i \in 1..Len(log) : IsCall(log[i])}

Last(s) == s[Len(s)]

\* The directive that opened the block a directive at index i is written in
Opener(i) ==
    LET before == {j \in Calls : j < i /\ log[j].col < log[i].col}
    IN CHOOSE j \in before : \A k \in before : k <= j

\* C3: every directive's handler is called on the context of the block the
\* directive is written in: the root context for a directive that is not
\* indented, and otherwise the sub-context returned by the nearest preceding
\* directive with strictly shorter indentation.
C3_DispatchedToEnclosingBlock ==
    \A i \in Calls :
        log[i].ctx = IF log[i].col = 1 THEN RootCtx ELSE log[Opener(i)].ret

\* Contexts with an End hook whose invocation has ended without an error
\* passing through it
EndedNormally ==
    {i \in 1..Len(log) :
        /\ log[i].op = "ParseTokens" /\ log[i].hasEnd
        /\ \A k \in 1..Len(frames) : frames[k].ctx # log[i].ctx
        /\ result = NoError}

EndsOf(ctx) == {j \in 1..Len(log) : log[j].op = "End" /\ log[j].ctx = ctx}

\* End is called at most once on a context, exactly once when its
\* invocation ended by end-of-stream or Outdent, and no handler is called
\* on a context after its End
C4_EndOncePerInvocation ==
    /\ \A i \in 1..Len(log) :
        log[i].op = "ParseTokens" => Cardinality(EndsOf(log[i].ctx)) <= 1
    /\ \A i \in EndedNormally : Cardinality(EndsOf(log[i].ctx)) = 1
    /\ \A j \in 1..Len(log), i \in Calls :
        (log[j].op = "End" /\ j < i) => log[i].ctx # log[j].ctx

\* The End of a block comes after the End of every block nested in it
C4_NestedEndsFirst ==
    \A i, k \in 1..Len(log) :
        (/\ log[i].op = "ParseTokens" /\ log[k].op = "ParseTokens" /\ i < k
         /\ EndsOf(log[i].ctx) # {} /\ log[k].hasEnd
         /\ \A j \in EndsOf(log[i].ctx) : k < j)
        => \E m \in EndsOf(log[k].ctx) : \A j \in EndsOf(log[i].ctx) : m < j

\* The End of a block comes before any later directive of the parent block:
\* a directive indented no more than the one that opened the block
C4_EndBeforeParentContinues ==
    \A i \in 2..Len(log), j \in Calls :
        (/\ log[i].op = "ParseTokens" /\ log[i].hasEnd /\ IsCall(log[i-1])
         /\ i < j /\ log[j].col <= log[i-1].col)
        => \E m \in EndsOf(log[i].ctx) : m < j

\* The error End returns is what the invocation returns
C4_EndErrorReturned ==
    (log # <<>> /\ Last(log).op = "End" /\ Failed(Last(log).err))
        => pc = "done" /\ result = EndError

\* C4: a context with an End hook whose invocation ends by end-of-stream or
\* Outdent has End called exactly once, after every directive and End of
\* the block and its nested blocks and before any later directive of the
\* parent block; no handler is called on it afterwards; End's error is the
\* result.
C4_EndHook ==
    /\ C4_EndOncePerInvocation
    /\ C4_NestedEndsFirst
    /\ C4_EndBeforeParentContinues
    /\ C4_EndErrorReturned

\* The tokens of the directive the last Terminator ended
WordsSinceTerm ==
    SelectSeq(sinceTerm, LAMBDA tok : tok.type = "WordToken")

\* Its Words, Objects and Terminator: what the dispatcher keeps in line
LineSinceTerm ==
    SelectSeq(sinceTerm, LAMBDA tok : tok.type \in {"WordToken", "ObjectToken", "TerminatorToken"})

ObjectsSinceTerm ==
    SelectSeq(sinceTerm, LAMBDA tok : tok.type = "ObjectToken")

\* An error of a handler or of an End hook is the last thing in the log and
\* Parse has returned it; a syntax error of the tokenizer is returned as it is
ErrorIsResult ==
    /\ \A i \in 1..Len(log) :
        Failed(log[i].err) =>
            /\ i = Len(log)
            /\ pc = "done"
            /\ frames = <<>>
            /\ result = IF log[i].op = "End" THEN EndError
                        ELSE HandlerError(log[i].err, LineSinceTerm)
    /\ res.kind = "err" =>
        /\ pc = "done"
        /\ frames = <<>>
        /\ result = SyntaxError(res)

\* The step on which Parse returns an error calls nothing but the call that
\* failed: no End hook of an enclosing block or of the root
ErrorCallsNothing ==
    (pc' = "done" /\ result' # NoError) =>
        \/ log' = log
        \/ log' = Append(log, Last(log')) /\ Failed(Last(log').err)

\* C6: no recovery.  As soon as the tokenizer returns a syntax error, or a
\* handler or an End hook returns an error, at any depth, Parse returns
\* that error and calls no further handler and no further End hook, not
\* even those of the enclosing blocks and of the root.
C6_NoRecovery == []ErrorIsResult /\ [][ErrorCallsNothing]_vars

\* C6 at work: a handler or End hook of a nested block failed while the
\* root context has an End hook
C6_ErrorInNestedBlock ==
    /\ pc = "done"
    /\ Failed(Last(log).err)
    /\ Last(log).ctx # RootCtx
    /\ log[1].hasEnd

\* C7: each Terminator is followed by one handler call: Directive when no
\* Object token came since the previous Terminator, else ObjectDirective;
\* name is the first Word since then, argv the other Words in order, json
\* the Object's text; nothing of an earlier directive is passed.
C7_OneCallPerTerminator ==
    IsTok("TerminatorToken") =>
        /\ Cardinality(Calls) = nTerm
        /\ IsCall(Last(log))
        /\ Last(log).name = WordsSinceTerm[1].text
        /\ Last(log).argv = [k \in 1..(Len(WordsSinceTerm) - 1) |-> WordsSinceTerm[k + 1].text]
        /\ IF ObjectsSinceTerm = <<>>
           THEN Last(log).op = "Directive" /\ Last(log).json = <<>>
           ELSE Last(log).op = "ObjectDirective"
                /\ Last(log).json = Last(ObjectsSinceTerm).text

\* C7 at work: a directive with an argument and JSON, then a plain one
C7_PlainAfterObjectDirective ==
    /\ IsTok("TerminatorToken")
    /\ nTerm >= 2
    /\ Last(log).op = "Directive"
    /\ \E i \in Calls : log[i].op = "ObjectDirective" /\ log[i].argv # <<>>

\* The most recent handler call
LastCall == log[CHOOSE i \in Calls : \A j \in Calls : j <= i]

\* C8: an Indent after a directive whose handler returned a nil sub-context
\* makes Parse return ErrIndent at the Indent token's line and column, and
\* nothing is called for the indented block.
C8_IndentUnderNilBlock ==
    (IsTok("IndentToken") /\ Calls # {} /\ LastCall.ret = NilCtx) =>
        /\ pc = "done"
        /\ result = LocatedError("ErrIndent", res.lineno, res.offset)
        /\ frames = <<>>
        /\ IsCall(Last(log))

\* C8 at work: the nil sub-context came from a directive of a nested block
C8_IndentRefused ==
    /\ IsTok("IndentToken")
    /\ LastCall.ret = NilCtx
    /\ LastCall.ctx # RootCtx
    /\ result.type = "ErrIndent"

(***************************************************************************)
(* Claims about the reflective handler.  A step that returns a Terminator  *)
(* to ParseTokens dispatches the directive held in the top frame.          *)
(***************************************************************************)
Dispatches == pc = "loop" /\ frames # <<>> /\ nTerm' = nTerm + 1

Alphabetic == {"a", "b", "A", "B"}

Uppercase == {"A", "B"}

\* The method name the documentation gives a directive name: the parts
\* between '-' with their first character in upper case, joined
RECURSIVE PascalParts(_, _, _)
PascalParts(name, i, first) ==
    IF i > Len(name) THEN <<>>
    ELSE IF name[i] = "-" THEN PascalParts(name, i + 1, TRUE)
    ELSE <<IF first /\ name[i] = "a" THEN "A"
           ELSE IF first /\ name[i] = "b" THEN "B"
           ELSE name[i]>> \o PascalParts(name, i + 1, FALSE)

PascalName(name) ==
    IF name = <<>> THEN <<>>
    ELSE (IF name[1] \in Alphabetic THEN <<>> ELSE <<"X">>)
         \o PascalParts(name, 1, TRUE)

\* The directive of the top frame goes to a reflective context and its
\* name resolves to a directive method
ResolvesToMethod ==
    /\ Top.ctx # PatchedCtx
    /\ Top.words # <<>>
    /\ \A i \in 1..Len(Top.words[1]) : Top.words[1][i] \notin Uppercase
    /\ PascalName(Top.words[1]) \in MethodNames(Top.hasEnd) \ { <<"E", "n", "d">> }

\* The signature of the directive methods of the top frame's context
Params == SignatureOf(Top.ctx).params
IsVariadic == SignatureOf(Top.ctx).variadic # ""
ObjectParams == {i \in 1..Len(Params) : Params[i] # "string"}

\* A signature the handler accepts: strings, at most one other parameter,
\* a variadic parameter of strings, at most two results
GoodSignature ==
    /\ Cardinality(ObjectParams) <= 1
    /\ SignatureOf(Top.ctx).variadic \in {"", "string"}
    /\ Len(ResultsOf(Top.ctx)) <= 2

\* The JSON token of the line in the top frame
JSONToken ==
    LET idx == {i \in 1..Len(Top.line) : Top.line[i].type = "ObjectToken"}
    IN Top.line[CHOOSE i \in idx : \A j \in idx : j <= i]

\* Parse fails in this step, no method having been called, with an error
\* that matches kind and lies at the token tok
FailsAt(kind, tok) ==
    /\ log' = log
    /\ pc' = "done"
    /\ errorsIs(result', kind)
    /\ result'.lineno = tok.lineno
    /\ result'.offset = tok.offset

UnexpectedJSON ==
    (Dispatches /\ ResolvesToMethod /\ GoodSignature
     /\ ObjectParams = {} /\ Top.json # <<>>)
        => FailsAt("ErrArgumentJSON", JSONToken)

\* C21: with a reflective context, when the resolved method has no
\* parameter that takes an object and the line carries JSON, the method is
\* not called and Parse returns an error that matches ErrArgumentJSON,
\* located at the JSON token, whatever the number of string arguments.
C21_UnexpectedJSON == [][UnexpectedJSON]_vars

\* C21 without the kind and the place of the error: the method is not
\* called and Parse returns a bad-argument error
C21_JSONNeverPassed ==
    [][(Dispatches /\ ResolvesToMethod /\ GoodSignature
        /\ ObjectParams = {} /\ Top.json # <<>>)
           => (log' = log /\ pc' = "done" /\ errorsIs(result', "ErrArguments"))]_vars

\* The number of required string parameters, and of argv words on the line
RequiredStrings == Len(Params) - Cardinality(ObjectParams)
Argc == Len(Top.words) - 1

\* The line has as many words as the string parameters take
ArityFits ==
    /\ Argc >= RequiredStrings
    /\ IsVariadic \/ Argc = RequiredStrings

\* The directive of the top frame resolves to a method that takes an
\* object, and the line carries no JSON
MissingJSON ==
    /\ Dispatches /\ ResolvesToMethod /\ GoodSignature
    /\ Cardinality(ObjectParams) = 1
    /\ Top.json = <<>>

ExpectedJSON ==
    (MissingJSON /\ ArityFits) =>
        /\ FailsAt("ErrArguments", res')
        /\ ~errorsIs(result', "ErrUnknown")
        /\ result'.detail = "expected JSON argument"

\* C22: with a reflective context, when the resolved method has exactly
\* one parameter that takes an object and the line carries no JSON, the
\* method is not called and Parse returns a bad-argument error with the
\* detail "expected JSON argument", located after the last argv word (at
\* the Terminator), and not an unknown-directive error.
C22_ExpectedJSON == [][ExpectedJSON]_vars

\* C22 without the kind of the error: the method is not called and Parse
\* fails
C22_NotCalledWithoutJSON ==
    [][MissingJSON => (log' = log /\ pc' = "done" /\ errorsIs(result', "ErrDirective"))]_vars

ArityErrors == {"not enough arguments", "too many arguments"}

ArityChecked ==
    /\ Argc < RequiredStrings =>
           /\ FailsAt("ErrArguments", res')
           /\ result'.detail = "not enough arguments"
    /\ (Argc > RequiredStrings /\ ~IsVariadic) =>
           /\ FailsAt("ErrArguments", Top.line[RequiredStrings + 2])
           /\ result'.detail = "too many arguments"
    /\ ArityFits => result'.detail \notin ArityErrors

\* C23: with S the number of required string parameters of the resolved
\* method and N the number of argv words, N < S gives the bad-argument
\* error "not enough arguments" past the last argv word (at the
\* Terminator), N > S for a method that is not variadic gives "too many
\* arguments" at argv[S]; in both cases the method is not called; otherwise
\* the arity check passes.
C23_ArityCheck ==
    [][(Dispatches /\ ResolvesToMethod /\ GoodSignature) => ArityChecked]_vars

\* C23 for the lines that carry JSON exactly when a parameter takes it
C23_ArityCheckWithMatchingJSON ==
    [][(Dispatches /\ ResolvesToMethod /\ GoodSignature
        /\ (Top.json # <<>> <=> ObjectParams # {})) => ArityChecked]_vars

HasUppercase(name) == \E i \in 1..Len(name) : name[i] \in Uppercase

\* The directive name of the top frame is resolved as documented
ResolvedAsDocumented(name) ==
    /\ HasUppercase(name) => FailsAt("ErrUnknown", Top.line[1])
    /\ (~HasUppercase(name) /\ PascalName(name) \notin MethodNames(Top.hasEnd))
           => FailsAt("ErrUnknown", Top.line[1])
    /\ log' # log =>
           /\ log'[Len(log')].op = "Method"
           /\ log'[Len(log')].name = PascalName(name)

\* C24: the reflective lookup maps a directive name to a method name by
\* splitting it on '-', upper-casing the first character of each part and
\* joining the parts, with 'X' prepended exactly when the first character
\* of the name is not alphabetic; a name with an uppercase character is an
\* unknown directive and no method is called.
C24_MethodName ==
    [][(Dispatches /\ Top.ctx # PatchedCtx /\ Top.words # <<>>)
           => ResolvedAsDocumented(Top.words[1])]_vars

\* C24 for the names that do not begin with '-'
C24_MethodNameNoLeadingDash ==
    [][(Dispatches /\ Top.ctx # PatchedCtx /\ Top.words # <<>>
        /\ Top.words[1][1] # "-")
           => ResolvedAsDocumented(Top.words[1])]_vars

\* A step in which ParseTokens receives an Indent token
EntersBlock == pc = "loop" /\ frames # <<>> /\ nIndent' = nIndent + 1

IsReflective(ctx) == Abs(ctx) \in ReflectContexts

\* The method called in this step returned what its result types allow:
\* no sub-context without a value result, and a failed parse for an error
ResultsDecide ==
    (Dispatches /\ IsReflective(Top.ctx) /\ log' # log) =>
        LET call == log'[Len(log')]
        IN /\ call.op = "Method"
           /\ ResultsOf(Top.ctx) \in { <<>>, <<"error">> } => call.ret = NilCtx
           /\ Failed(call.err) => (pc' = "done" /\ result'.kind = "err")
           /\ ~Failed(call.err) =>
                  (pc' = "loop" /\ frames'[Len(frames')].block.ctx = call.ret)

\* After a method that returned nil, or a nil pointer, an indented block
\* is refused
NilPermitsNoBlock ==
    (EntersBlock /\ IsReflective(Top.ctx) /\ Top.block.ctx <= 0) =>
        /\ pc' = "done"
        /\ errorsIs(result', "ErrIndent")
        /\ result'.lineno = res'.lineno
        /\ result'.offset = res'.offset

\* C25: the results of a reflective method decide the sub-context: none
\* for no result or a single nil error; the single value, or the first of
\* two results, otherwise; when that value is nil, a nil pointer of the
\* declared type included, an indented block that follows is an
\* unexpected-indent error; a non-nil error makes the parse fail.
C25_ResultsDecideSubContext == [][ResultsDecide /\ NilPermitsNoBlock]_vars

\* C25 for the methods that return no value or the nil interface value
C25_NilInterfacePermitsNoBlock ==
    [][ResultsDecide
       /\ ((EntersBlock /\ IsReflective(Top.ctx) /\ Top.block.ctx = NilCtx) =>
              (pc' = "done" /\ errorsIs(result', "ErrIndent")
               /\ result'.lineno = res'.lineno /\ result'.offset = res'.offset))]_vars


\* The method called in this step returned a non-nil error
MethodFailed ==
    /\ Dispatches /\ IsReflective(Top.ctx) /\ log' # log
    /\ Failed(log'[Len(log')].err)

\* The error a method returned comes out of Parse as a directive error
\* that wraps it, at the token of the directive name
MethodErrorIsDirectiveError ==
    MethodFailed =>
        LET e == log'[Len(log')].err.err
            name == LineInfo0(Top.line[1])
        IN /\ pc' = "done"
           /\ errorsIs(result', "ErrDirective")
           /\ errorsIs(result', "ErrSyntax")
           /\ errorsIs(result', e)
           /\ result'.located
           /\ result'.lineno = name.lineno
           /\ result'.offset = name.offset

Targets ==
    {"ErrSyntax", "ErrToken", "ErrDirective", "ErrUnknown", "ErrArguments",
     "ErrArgumentJSON", "ErrIndent", "json.Unmarshal", "end"} \cup MethodErrors

\* a and b are the same error but for the name of the file
DiffersInFileOnly(a, b) ==
    /\ a.kind = b.kind
    /\ a.located = b.located
    /\ a.type = b.type
    /\ a.detail = b.detail
    /\ a.lineno = b.lineno /\ a.offset = b.offset
    /\ \A target \in Targets : errorsIs(a, target) = errorsIs(b, target)

\* What ErrorInFile makes of the error Parse returned
InFileAsDocumented ==
    (pc = "done" /\ result.kind = "err") =>
        IF result.located
        THEN /\ DiffersInFileOnly(ParseFile("f"), result)
             /\ ParseFile("f").file = "f"
        ELSE ParseFile("f") = result

\* C27: ErrorInFile(err, f) of a located error differs from err in the
\* file name only: kind, detail, line, column and the errors it matches,
\* a cause supplied by a handler included, are those of err; an error
\* without location is returned unchanged.
C27_ErrorInFileAddsFileOnly == InFileAsDocumented

\* C27 for the errors that have no cause
C27_ErrorInFileWithoutCause ==
    (pc = "done" /\ result.kind = "err" /\ result.cause = "") =>
        IF result.located
        THEN /\ DiffersInFileOnly(ParseFile("f"), result)
             /\ ParseFile("f").file = "f"
        ELSE ParseFile("f") = result


\* The place an error is located at
LocationOf(err) ==
    IF err.kind = "err" /\ err.located
    THEN [lineno |-> err.lineno, offset |-> err.offset]
    ELSE [lineno |-> 0, offset |-> 0]

\* C28: for every error of Parse that does not come from reading the
\* stream, ErrorLocation(err) is the line and column the error is located
\* at; it is the zero LineInfo only for errors that have no location.
C28_ErrorLocationIsTheLocation ==
    (pc = "done" /\ result.kind = "err") =>
        ErrorLocation(result) = LocationOf(result)


\* result' lies at the token tok
LiesAt(tok) ==
    /\ result'.located
    /\ result'.lineno = tok.lineno
    /\ result'.offset = tok.offset

\* The token of the line that precedes the Terminator
BeforeTerminator == Top.line[Len(Top.line)]

\* A context that has Directive only is not called for a line with JSON,
\* and the error lies at the JSON token
JSONRefused ==
    (Dispatches /\ Top.ctx = PatchedCtx /\ Top.json # <<>>) =>
        /\ log' = log
        /\ pc' = "done"
        /\ errorsIs(result', "ErrArgumentJSON")
        /\ LiesAt(JSONToken)

\* A bare error that Directive returned lies at the directive name, but
\* for one that matches ErrArgumentJSON
BareErrorAtName ==
    (Dispatches /\ Top.ctx = PatchedCtx /\ log' # log
        /\ log'[Len(log')].err.form \in {"bare", "json"}) =>
        LET err == log'[Len(log')].err
        IN /\ pc' = "done"
           /\ errorsIs(result', err.err)
           /\ IF Is(err.err, "ErrArgumentJSON")
              THEN LiesAt(BeforeTerminator)
              ELSE LiesAt(Top.line[1])

\* C29: an error of a handler that carries no argument index is located
\* at the JSON token, the token before the Terminator, when it matches
\* ErrArgumentJSON (as for a context that has Directive only and a line
\* with JSON, Directive not being called), and at the first token of the
\* line, the directive name, otherwise.
C29_BareErrorLocation == [][JSONRefused /\ BareErrorAtName]_vars

\* C29 for the lines whose JSON is their last token
C29_BareErrorLocationJSONLast ==
    [][BareErrorAtName
       /\ ((Top.json # <<>> /\ JSONToken = BeforeTerminator) => JSONRefused)]_vars


\* The error the handler of the context returned in this step, where the
\* parse fails at a Terminator
ReturnedByHandler ==
    IF log' # log THEN log'[Len(log')].err
    ELSE IF Top.ctx = PatchedCtx THEN Error("json", 0)
    ELSE LET r == ObjectDirective(Top.ctx, Top.hasEnd, Top.words[1],
                                  Len(Top.words) - 1, Len(Top.json) # 0)
         IN IF r.call THEN errorArg("json.Unmarshal", -1, "") ELSE r.err

\* The Word tokens of the line: the directive name and argv
WordTokens == SelectSeq(Top.line, LAMBDA t : t.type = "WordToken")

HasJSON == \E i \in 1..Len(Top.line) : Top.line[i].type = "ObjectToken"

\* The token an error of argument index k (of DirectiveErrorf when
\* directive is true) is said to lie at; res' is the Terminator
LocatedAsDocumented(err) ==
    IF err.index = 0 THEN LiesAt(WordTokens[1])
    ELSE IF err.index < 0
    THEN LiesAt(IF HasJSON THEN JSONToken ELSE res')
    ELSE (err.index - 1 < Len(WordTokens) - 1) => LiesAt(WordTokens[err.index + 1])

ArgumentErrorLocated ==
    (Dispatches /\ Top.words # <<>> /\ pc' = "done"
        /\ ReturnedByHandler.form = "arg") =>
        LocatedAsDocumented(ReturnedByHandler)

\* C30: an error of ArgumentErrorf(k) that a handler returns is located,
\* for 0 <= k < len(argv), at the token of argv[k], line token k + 1; for
\* negative k at the token of the JSON argument if the line has one, at
\* the Terminator otherwise; an error of DirectiveErrorf is located at the
\* token of the directive name.
C30_ArgumentErrorLocation == [][ArgumentErrorLocated]_vars

\* C30 for the lines that have no word after their JSON
C30_ArgumentErrorLocationJSONLast ==
    [][(~HasJSON \/ JSONToken = BeforeTerminator) => ArgumentErrorLocated]_vars


(***************************************************************************)
(* Claims about the errors of handlers.                                    *)
(***************************************************************************)
\* The handler called in this step returned an error of ArgumentErrorf:
\* an errorArg whose Index is not that of DirectiveErrorf
ReturnsArgumentError ==
    /\ Dispatches /\ log' # log
    /\ log'[Len(log')].err.form = "arg"
    /\ log'[Len(log')].err.index # 0

\* C31: every error built with ArgumentErrorf that a directive handler
\* returns, for any index and whether or not it wraps a cause (an error of
\* the caller or one of the error kinds of the package), is reported by
\* Parse as an error that matches ErrArguments.
C31_ArgumentErrorsMatchErrArguments ==
    [][ReturnsArgumentError =>
          (pc' = "done" /\ errorsIs(result', "ErrArguments"))]_vars

\* C31 for the causes that are no syntax errors of the package
C31_ForeignCauseMatchesErrArguments ==
    [][(ReturnsArgumentError /\ ~Is(log'[Len(log')].err.err, "ErrSyntax")) =>
          (pc' = "done" /\ errorsIs(result', "ErrArguments")
           /\ errorsIs(result', log'[Len(log')].err.err))]_vars


(***************************************************************************)
(* Claims about the state of the tokenizer.                                *)
(***************************************************************************)
StrictPrefix(a, b) == Len(a) < Len(b) /\ SubSeq(b, 1, Len(a)) = a

\* C32: in every state of the tokenizer the indent stack is non-empty,
\* its bottom entry is the empty byte sequence, and each entry is a strict
\* byte-prefix of the entry above it; neither an outdent nor the drain at
\* the end of the input pops the root entry.
C32_IndentStackShape ==
    /\ Len(tk.indentStack) >= 1
    /\ tk.indentStack[1] = <<>>
    /\ \A i \in 1..(Len(tk.indentStack) - 1) :
           StrictPrefix(tk.indentStack[i], tk.indentStack[i + 1])

\* The drain at the end of the input has closed two blocks and stopped at
\* the root entry
C32_DrainedToRoot ==
    /\ res.kind = "eof" /\ ~afterErr
    /\ nOutdent >= 2
    /\ outSinceTerm >= 2
    /\ tk.indentStack = << <<>> >>


\* A line of whitespace only, or of whitespace and a comment
IsCommentLine(b) == \E i \in 1..Len(b) : b[i] = HASH

IsWhiteLine(b) ==
    /\ b # <<>>
    /\ \A i \in 1..Len(b) :
           \/ b[i] \in {SP, TAB, LF}
           \/ b[i] = CR /\ i < Len(b) /\ b[i + 1] = LF
           \/ \E j \in 1..i : b[j] = HASH

\* What the tokenizer tracks of the block structure
Tracking(t) ==
    [indentStack |-> t.indentStack, outdenting |-> t.outdenting,
     lastToken |-> t.lastToken]

\* A call of Next that begins at the start of a line of whitespace, with
\* or without a comment
ReadsWhiteLine ==
    /\ tk.lineNil /\ tk.lastToken # "errorToken"
    /\ pending # <<>> /\ IsWhiteLine(Head(pending))
    /\ tk' # tk

\* The call returns the Comment of the line and leaves the tokenizer as it
\* was, one line further on; for a line without comment it returns what
\* it returns when the line is not there
WhiteLineSkipped ==
    ReadsWhiteLine =>
        IF IsCommentLine(Head(pending))
        THEN /\ res'.type = "CommentToken"
             /\ pending' = Tail(pending)
             /\ [tk' EXCEPT !.offset = 0] =
                    [tk EXCEPT !.lineno = @ + 1, !.offset = 0]
        ELSE \A without \in {TokenizerNext([tk EXCEPT !.lineno = @ + 1],
                                           Tail(pending), closed)} :
                 /\ ~without.blocked
                 /\ res'.kind = without.res.kind
                 /\ res'.type = without.res.type
                 /\ res'.text = without.res.text
                 /\ pending' = without.pend
                 /\ Tracking(tk') = Tracking(without.t)
                 /\ EndsWithLF(Head(pending)) =>
                        (res' = without.res /\ tk' = without.t)

\* C33: a line of whitespace only, or of whitespace and a comment, leaves
\* the indent stack, the outdenting flag and the last token unchanged
\* whatever its indentation, gives no Indent, Outdent, Word or Terminator
\* (its Comment only), and does not change the Indent and Outdent tokens
\* of the directive line that follows.
C33_WhiteLinesLeaveNoTrace == [][WhiteLineSkipped]_vars

\* An Outdent has been returned by a call that first moved past an
\* indented line of whitespace
C33_OutdentAfterIndentedBlankLine ==
    /\ res.type = "OutdentToken" /\ ~afterErr
    /\ CountLF(consumed) >= 1
    /\ consumed[1] \in {SP, TAB}
    /\ tk.offset = 1


\* The directive line the last Terminator ended has one Object at most,
\* and it is the token before the Terminator
OneObjectAndLast ==
    LET line == LineSinceTerm
    IN /\ Len(ObjectsSinceTerm) <= 1
       /\ \A i \in 1..Len(line) :
              line[i].type = "ObjectToken" => i = Len(line) - 1

\* C34: between two Terminators there is one Object token at most, and it
\* is the last token before the Terminator: no Word and no second Object
\* follows it on the directive line, so that the JSON argument is the
\* line's only Object and the token before the Terminator.
C34_OneObjectLastOnLine ==
    (res.kind = "tok" /\ res.type = "TerminatorToken" /\ ~afterErr)
        => OneObjectAndLast


(***************************************************************************)
(* Claims about LineInfo.                                                  *)
(***************************************************************************)
\* The indexes in the source s of a word of the bytes of its text, in order
RECURSIVE TextIndexes(_, _, _, _)
TextIndexes(s, i, q, acc) ==
    IF i > Len(s) THEN acc
    ELSE IF q = ""
    THEN IF s[i] \in {SP, TAB, HASH, LF, CR} THEN acc
         ELSE IF s[i] \in {SQ, DQ} THEN TextIndexes(s, i + 1, s[i], acc)
         ELSE TextIndexes(s, i + 1, "", Append(acc, i))
    ELSE IF s[i] = q THEN TextIndexes(s, i + 1, "", acc)
         ELSE TextIndexes(s, i + 1, q, Append(acc, i))

\* Line and column of the byte k (from 0) of the text of the Word returned
WordByteAt(k) ==
    [lineno |-> MetLine,
     offset |-> MetColumn + TextIndexes(StripLeading(consumed), 1, "", <<>>)[k + 1] - 1]

\* Line and column of the byte k (from 0) of the Object returned
ObjectByteAt(k) ==
    LET before == SubSeq(res.text, 1, k)
    IN [lineno |-> MetLine + CountLF(before),
        offset |-> IF CountLF(before) = 0 THEN MetColumn + k
                   ELSE Len(AfterLastLF(before)) + 1]

LineInfoOfEveryByte ==
    /\ IsTok("WordToken") =>
           \A k \in 0..(Len(res.text) - 1) : LineInfo(res, k) = WordByteAt(k)
    /\ IsTok("ObjectToken") =>
           \A k \in 0..(Len(res.text) - 1) : LineInfo(res, k) = ObjectByteAt(k)

\* C35: for every Word and Object token and every index k of its Text,
\* LineInfo(k) is the line and column the byte k of the text comes from:
\* for a Word with quoted runs the column after every quote removed before
\* the byte, for an Object of several lines the line of the byte and its
\* column on that line.
C35_LineInfoOfEveryByte == LineInfoOfEveryByte

HasQuote(s) == \E i \in 1..Len(s) : s[i] \in {SQ, DQ}

\* C35 for the Words without quotes and the Objects of one line
C35_LineInfoWithoutQuotesOnOneLine ==
    /\ (IsTok("WordToken") /\ ~HasQuote(StripLeading(consumed))) =>
           \A k \in 0..(Len(res.text) - 1) : LineInfo(res, k) = WordByteAt(k)
    /\ (IsTok("ObjectToken") /\ CountLF(res.text) = 0) =>
           \A k \in 0..(Len(res.text) - 1) : LineInfo(res, k) = ObjectByteAt(k)


\* The handler called in this step returned an error that is located
\* already
ReturnsLocatedError ==
    /\ Dispatches /\ log' # log
    /\ log'[Len(log')].err.form = "located"

\* C36: a bare error of a handler that carries a location already (a
\* located error of the package) has that location, its detail and its
\* cause when Parse returns it; only the errors without location are given
\* the location of the directive name (or of the JSON token).
C36_LocatedErrorKept ==
    [][ReturnsLocatedError =>
          (pc' = "done" /\ result' = log'[Len(log')].err.inner)]_vars

\* What is kept of such an error: its kind, detail and file
C36_KindDetailFileKept ==
    [][ReturnsLocatedError =>
          LET inner == log'[Len(log')].err.inner
          IN /\ pc' = "done"
             /\ result'.type = inner.type
             /\ result'.detail = inner.detail
             /\ result'.file = inner.file
             /\ LiesAt(Top.line[1])]_vars


(***************************************************************************)
(* Claims about the arguments of a reflective method.                      *)
(***************************************************************************)
\* What ObjectDirective resolves the directive of the top frame to
ResolvedDirective ==
    ObjectDirective(Top.ctx, Top.hasEnd, Top.words[1], Len(Top.words) - 1,
                    Len(Top.json) # 0)

\* The method of the context is called in this step
MethodInvoked ==
    /\ Dispatches /\ IsReflective(Top.ctx) /\ log' # log
    /\ log'[Len(log')].op = "Method"

\* The arguments of the call: one for each word of argv and one for the
\* JSON, none left unset, the words in order at the string parameters and
\* the object at the place of the object parameter
BoundAsDocumented ==
    MethodInvoked =>
        LET argv == Tail(Top.words)
            args == argValues(argv, Top.json, ResolvedDirective.objIndex)
            strings == SelectSeq(args, LAMBDA v : v.kind = "string")
        IN /\ Len(args) = Len(argv) + (IF Top.json # <<>> THEN 1 ELSE 0)
           /\ \A i \in 1..Len(args) : args[i].kind # "zero"
           /\ Len(strings) = Len(argv)
           /\ \A i \in 1..Len(argv) : strings[i].value = argv[i]
           /\ Top.json # <<>> =>
                  \E p \in 1..Len(Params) :
                      /\ ObjectParams = {p}
                      /\ p <= Len(args)
                      /\ args[p] = [kind |-> "object", json |-> Top.json]
           /\ Top.json = <<>> =>
                  \A i \in 1..Len(args) : args[i].kind = "string"

\* json.Unmarshal refuses the object in this step: the method is not called
DecodingFails ==
    /\ Dispatches /\ IsReflective(Top.ctx) /\ Top.words # <<>>
    /\ Top.json # <<>>
    /\ ResolvedDirective.call
    /\ log' = log /\ pc' = "done"

DecodingFailureAtJSON ==
    DecodingFails => (errorsIs(result', "ErrArguments") /\ LiesAt(JSONToken))

\* C37: a reflective method is called with as many arguments as argv has
\* words, and one more for the JSON, every one set: the words in order at
\* the string parameters, fixed and variadic, past the place of the object
\* parameter, and the decoded JSON at that place; when the JSON cannot be
\* decoded Parse returns a bad-argument error located at the JSON token,
\* and the method is not called.
C37_ArgumentsBound == [][BoundAsDocumented /\ DecodingFailureAtJSON]_vars

\* C37 for the lines that have no word after their JSON
C37_ArgumentsBoundJSONLast ==
    [][BoundAsDocumented
       /\ ((~HasJSON \/ JSONToken = BeforeTerminator) => DecodingFailureAtJSON)]_vars


\* ---------------------------------------------------------------------
\* C38: every Terminator the Tokenizer returns has a Word token before
\* it since the Terminator before (or the start of the stream), so the
\* line ParseTokens hands on has at least two tokens, and ParseTokens
\* never takes words[0] of an empty word list.
EmptyWordsIndexed == pc = "panic" /\ frames # <<>> /\ Top.words = <<>>

C38_TerminatorFollowsWord ==
    /\ IsTok("TerminatorToken") =>
          /\ WordsSinceTerm # <<>>
          /\ Len(LineSinceTerm) >= 2
    /\ ~EmptyWordsIndexed

\* A Terminator of a line inside a block has been returned, the line's
\* Word before it and the block's Indent before that
C38_TerminatorInsideBlock ==
    /\ IsTok("TerminatorToken")
    /\ nIndent > 0
    /\ nTerm >= 2
    /\ WordsSinceTerm # <<>>
    /\ Len(frames) >= 2


\* ---------------------------------------------------------------------
\* C39: on a finite input whose reads do not fail every call of Next
\* returns, finitely many calls reach an error or the end of the stream,
\* and Parse returns when every handler call returns.
\*
\* Parse is one sequential loop: a step that can be taken is taken.  The
\* reader delivers the next line or the end of the input when Next asks
\* for it, and a handler that is called returns.
RunLines ==
    { <<"a", LF>>, <<SP, "a", LF>>, <<SP, SP, "a", LF>>, <<SP, LF>>,
      <<HASH, LF>>, <<"a", SP, LBRACE, RBRACE, LF>>, <<SQ, LF>>,
      <<"a">> }

FeedRun ==
    /\ pc = "loop"
    /\ Waiting
    /\ \E l \in IF fed < MaxRunLines THEN RunLines \cup {<<>>} ELSE {<<>>} : Deliver(l)
    /\ UNCHANGED tokVars
    /\ UNCHANGED parseVars

NextRun ==
    \/ FeedRun
    \/ OnWord
    \/ OnObject
    \/ OnTerminator
    \/ OnIndent
    \/ OnOutdent
    \/ OnComment
    \/ OnEOF
    \/ OnSyntaxError

SpecRun == InitParse /\ [][NextRun]_vars /\ WF_vars(NextRun)

\* Next has answered an error or the end of the stream, or a handler or
\* an End hook has ended the parsing before
StreamEnded == res.kind \in {"err", "eof"} \/ result # NoError

JSONNotFinished ==
    /\ tk.lastToken # "errorToken"
    /\ res'.kind = "err"
    /\ res'.type = "ErrEOF"
    /\ res'.detail = "JSON object not finished"

\* The input from the position of Next on: the rest of the line and
\* the lines after it
InputAhead == Rest \o Flatten(pending)

\* The same without a final line that no line feed ends
TerminatedLinesAhead ==
    Rest \o Flatten(SelectSeq(pending, EndsWithLF))

NotClosedIn(bytes) == ClosesAt(bytes, 1, <<>>, FALSE, FALSE) = 0

C40_EOFOnlyWhenNotClosed ==
    [][JSONNotFinished => NotClosedIn(InputAhead)]_vars

\* What holds instead: the bracket is not closed on the lines that end
\* with a line feed
C40_EOFOnlyWhenNotClosedOnTerminatedLines ==
    [][JSONNotFinished => NotClosedIn(TerminatedLinesAhead)]_vars

=============================================================================
